---- MODULE Spec2Model ----
(***************************************************************************)
(* Model of AgentOrchestrator.execute_plan and the entities it drives      *)
(* (src/src/domain/services/agent_orchestrator.py, src/src/domain/         *)
(* entities.py, src/src/domain/value_objects.py).                          *)
(*                                                                         *)
(* One plan and one orchestrator.  A plan has up to NumTasks tasks, whose   *)
(* ids are 1, 2, ... in plan order; agent ids are 1, 2, ... in             *)
(* registration order (the iteration order of the _active_agents dict).    *)
(* A dependency list is modelled by the set of its ids: can_start and the  *)
(* cycle search only test membership.                                      *)
(***************************************************************************)
EXTENDS Integers, Sequences, FiniteSets, TLC

\* ---------------------------------------------------------------- bounds
NumTasks == 3
NumAgents == 2
MaxDependencies == 2

Tasks == 1..NumTasks
Agents == 1..NumAgents

\* Absent ids (Optional[...] = None).
NoTask == 0
NoAgent == 0
\* performance_metrics without the 'success_rate' key.
NoMetric == -1

\* ------------------------------------------------------- value objects
PENDING == "pending"
RUNNING == "running"
COMPLETED == "completed"
FAILED == "failed"

\* Two of the kinds of TaskType.
TaskTypes == {"file_operations", "testing"}
\* The kinds of the tasks of a plan of n tasks.  The first task is a file
\* operation: the agents' capability lists range over both kinds alike, so
\* exchanging the two kinds gives the plans that start with a testing task.
\* (Ids beyond n belong to no task; their entries are never read.)
TaskTypeChoices(n) ==
    {f \in [Tasks -> TaskTypes] : \A t \in Tasks : (t = 1 \/ t > n) => f[t] = "file_operations"}
\* TaskPriority.MEDIUM, the priority of the plan's tasks.
MEDIUM == 2
\* TaskPriority.HIGH
HIGH == 3
\* Capability lists an agent is registered with.
CapabilityChoices == SUBSET TaskTypes \ {{}}
\* Agents are registered with performance_metrics = {'success_rate': 1.0}, as
\* test_ddd_architecture.py does; success rates are kept in percent.
InitialSuccessRate == 100

\* What the Executor behind an agent does with a task when it is invoked.
ExecutorOutcomes == {"success", "failure", "raises"}

TypeErrorMsg == "object NoneType can't be used in 'await' expression"
StartErrorMsg == "Cannot start task in status"
FailErrorMsg == "Cannot fail task in status"
CompleteErrorMsg == "Cannot complete task in status"
AssignErrorMsg == "Agent is not available"
PlanCompleteErrorMsg == "Cannot complete plan in status"
ExecutorErrorMsg == "executor error message"
ExecutorRaiseMsg == "executor raised"
ExecutorData == "executor data"

\* TaskResult values, and the exception objects gather hands back.
NoResult == [kind |-> "none", success |-> FALSE, data |-> "None", error_message |-> "None"]
ResultOk(d) == [kind |-> "result", success |-> TRUE, data |-> d, error_message |-> "None"]
ResultErr(m) == [kind |-> "result", success |-> FALSE, data |-> "None", error_message |-> m]
ExceptionObj(m) == [kind |-> "exception", success |-> FALSE, data |-> "None", error_message |-> m]

VARIABLES
    \* the plan (ExecutionPlanEntity) and its tasks (TaskEntity)
    tasks, dependencies, task_type, priority, plan_status, plan_success_rate,
    status, assigned_agent_id, result, error,
    \* the registry (_active_agents) and its agents (AgentEntity)
    active_agents, capabilities, agent_status, current_task_id, task_queue,
    success_rate, total_tasks_completed, recent,
    \* locals of execute_plan
    pc, completed_task_ids, failed_task_ids, task_results,
    ready_tasks, execution_tasks, results, idx,
    \* what the caller gets, and how the loop was left
    report, exit_reason, entry_status,
    \* what the Executor of a dispatched task does when invoked
    executor_outcome,
    \* what the Executors behind the registered agents can do
    executor_outcomes,
    \* locals of _select_best_agent: the (agent, score) list and the return value
    suitable_agents, best_agent,
    \* the other coroutines on the event loop: the register_agent calls that
    \* are scheduled and have not run, and an execute_plan call for another plan
    register_calls, other_pc,
    \* the planning and analysis services: the request text, the lists
    \* extract_subtasks and create_execution_plan return, the result of
    \* analyze_task, and which of the calls have been made
    user_request, subtask_descriptions, analysis, built_tasks, parallel_groups, service_pc,
    \* the complexity score of the task list, in thousandths
    complexity_score,
    \* a TaskAnalysisService of its own: its rule table (self.analysis_rules)
    \* and the calls of analyze_task made on it, each with its text and result
    self_analysis_rules, analysis_calls,
    \* the ids issued so far by TaskId.generate, the counter of a TaskRouter
    \* (self.task_counter) and the ids its _generate_task_id has issued
    generated_ids, task_counter, router_ids,
    \* a call of _has_circular_dependencies(tasks): the list it is given, where
    \* the call stands and what it returned
    given_tasks, cycle_pc, cycle_result,
    \* PlannerAgent: the tasks of the plan handed to _execute_plan, the
    \* registered agents (self.available_agents), the locals of _execute_plan
    \* (position in plan.tasks, completed_tasks, failed_tasks, results), the
    \* tasks handed to an agent's execute_task so far, and what the call returned
    plan_tasks, available_agents, planner_pc, task_index, completed_tasks, failed_tasks,
    planner_results, executed, planner_return

planVars == <<tasks, dependencies, task_type, priority, plan_status, plan_success_rate>>
taskVars == <<status, assigned_agent_id, result, error>>
agentVars == <<active_agents, capabilities, agent_status, current_task_id, task_queue,
               success_rate, total_tasks_completed, recent>>
localVars == <<completed_task_ids, failed_task_ids, task_results,
               ready_tasks, execution_tasks, results, idx>>
selectVars == <<suitable_agents, best_agent>>
eventLoopVars == <<register_calls, other_pc>>
serviceVars == <<user_request, subtask_descriptions, analysis, built_tasks, parallel_groups,
                 service_pc, complexity_score>>
classifierVars == <<self_analysis_rules, analysis_calls>>
identityVars == <<generated_ids, task_counter, router_ids>>
cycleVars == <<given_tasks, cycle_pc, cycle_result>>
plannerVars == <<plan_tasks, available_agents, planner_pc, task_index, completed_tasks,
                 failed_tasks, planner_results, executed, planner_return>>
extensionVars == <<classifierVars, identityVars, cycleVars, plannerVars>>
\* The extensions a TaskAnalysisService, the issuing of ids, a cycle search
\* and a PlannerAgent leave alone.
besidesClassifier == <<identityVars, cycleVars, plannerVars>>
besidesIdentity == <<classifierVars, cycleVars, plannerVars>>
besidesCycle == <<classifierVars, identityVars, plannerVars>>
besidesPlanner == <<classifierVars, identityVars, cycleVars>>
vars == <<planVars, taskVars, agentVars, localVars, pc, report, exit_reason,
          entry_status, executor_outcome, executor_outcomes, selectVars,
          eventLoopVars, serviceVars, extensionVars>>

\* ------------------------------------------------------------- helpers
Range(s) == {s[i] : i \in 1..Len(s)}

RECURSIVE SeqOfSet(_, _)
\* The members of S among 1..n, in increasing order.
SeqOfSet(S, n) ==
    IF n = 0 THEN <<>>
    ELSE IF n \in S THEN Append(SeqOfSet(S, n - 1), n) ELSE SeqOfSet(S, n - 1)

\* The dependency graphs of a plan of n tasks: every task names ids of other
\* tasks (ids of no task of the plan included: neither the constructor of
\* ExecutionPlanEntity nor add_task looks at them), the plan has at most
\* m entries in all.
DependencyGraphsUpTo(n, m) ==
    {[t \in Tasks |-> {d \in Tasks : <<t, d>> \in E}] :
        E \in {F \in SUBSET {e \in (1..n) \X Tasks : e[1] # e[2]} :
                    Cardinality(F) <= m}}
DependencyGraphs(n) == DependencyGraphsUpTo(n, MaxDependencies)

\* ------------------------------------------------------------ entities
\* can_start with the membership test inverted: a fault the start-order
\* property has to detect.
CanStartInverted(t, completed) == \A dep \in dependencies[t] : dep \notin Range(completed)

\* TaskEntity.can_start
CanStart(t, completed) == \A dep \in dependencies[t] : dep \in Range(completed)

\* ExecutionPlanEntity.get_ready_tasks
GetReadyTasks(completed) ==
    SelectSeq(tasks, LAMBDA t : status[t] = PENDING /\ CanStart(t, completed))

\* The pending_tasks of line 66, as a set of ids.
PendingTasks == {t \in Range(tasks) : status[t] = PENDING}

\* ExecutionPlanEntity.get_completion_percentage: num / den * 100, and 0.0
\* for a plan without tasks.
GetCompletionPercentage(st) ==
    IF tasks = <<>> THEN [num |-> 0, den |-> 1]
    ELSE [num |-> Cardinality({t \in Range(tasks) : st[t] \in {COMPLETED, FAILED}}),
          den |-> Len(tasks)]

\* The guard of fail dropped: a fault the finality of terminal states has to
\* detect.
TaskFailOkAlways(s) == TRUE

\* The guards of start_execution, complete_execution, start, complete, fail and
\* assign_task: TRUE when the call goes through, FALSE when it raises ValueError.
\* start_execution without its status test: a fault the rejection of a plan
\* that is not pending has to detect.
StartExecutionOkAlways(ps) == TRUE
StartExecutionOk(ps) == ps = "pending"
CompleteExecutionOk(ps) == ps = "running"
TaskStartOk(s) == s = PENDING
TaskCompleteOk(s) == s = RUNNING
TaskFailOk(s) == s = RUNNING
AssignTaskOk(s) == s = "available"

\* AgentEntity.can_handle_task
CanHandleTask(a, ty) == ty \in capabilities[a]

\* ----------------------------------------------------- agent selection
Max0(x) == IF x > 0 THEN x ELSE 0

\* _calculate_agent_score; success rates are in percent, so rate * 50 is
\* success_rate[a] * 50 / 100.
CalculateAgentScore(a, t) ==
    LET s1 == IF success_rate[a] # NoMetric THEN (success_rate[a] * 50) \div 100 ELSE 0
        s2 == s1 - Len(task_queue[a]) * 10
        s3 == IF task_type[t] \in capabilities[a] THEN s2 + 30 ELSE s2
        s4 == IF priority[t] >= 3 THEN s3 + 20 ELSE s3
        s5 == IF a \in recent THEN s4 + 10 ELSE s4
    IN  Max0(s5)

\* The filter of line 145 without its status test: a fault the candidate
\* property has to detect.
SuitableAgentsIgnoringStatus(t) ==
    SelectSeq(active_agents, LAMBDA a : CanHandleTask(a, task_type[t]))

\* The candidates of _select_best_agent, in registry order.
SuitableAgents(t) ==
    SelectSeq(active_agents,
              LAMBDA a : agent_status[a] = "available" /\ CanHandleTask(a, task_type[t]))

\* Lines 142-147: the (agent, score) pairs of the candidates, in registry order.
ScoredAgents(t) ==
    [i \in 1..Len(SuitableAgents(t)) |->
        [agent |-> SuitableAgents(t)[i],
         score |-> CalculateAgentScore(SuitableAgents(t)[i], t)]]

RECURSIVE InsertDescendingUnstable(_, _)
\* The insertion with > for >=: x goes before the pairs of equal score, a
\* fault the tie-break property has to detect.
InsertDescendingUnstable(x, sorted) ==
    IF sorted = <<>> THEN <<x>>
    ELSE IF Head(sorted).score > x.score
         THEN <<Head(sorted)>> \o InsertDescendingUnstable(x, Tail(sorted))
         ELSE <<x>> \o sorted

RECURSIVE InsertDescending(_, _)
\* x put into a list sorted by descending score, behind every pair whose score
\* is not smaller.
InsertDescending(x, sorted) ==
    IF sorted = <<>> THEN <<x>>
    ELSE IF Head(sorted).score >= x.score
         THEN <<Head(sorted)>> \o InsertDescending(x, Tail(sorted))
         ELSE <<x>> \o sorted

RECURSIVE SortDescending(_)
\* list.sort(key=score, reverse=True) of line 154: descending and stable,
\* pairs of equal score keep their order.
SortDescending(l) ==
    IF l = <<>> THEN <<>>
    ELSE InsertDescending(l[Len(l)], SortDescending(SubSeq(l, 1, Len(l) - 1)))

\* _select_best_agent: None without candidates, else the agent of the first
\* pair of the sorted list.
SelectBestAgent(t) ==
    LET sorted == SortDescending(ScoredAgents(t))
    IN  IF sorted = <<>> THEN NoAgent ELSE sorted[1].agent

RECURSIVE SelectAll(_)
\* Lines 80-85 of execute_plan: one coroutine per ready task that got an agent.
SelectAll(ready) ==
    IF ready = <<>> THEN <<>>
    ELSE LET agent == SelectBestAgent(Head(ready))
         IN  IF agent # NoAgent
             THEN <<[task |-> Head(ready), agent |-> agent]>> \o SelectAll(Tail(ready))
             ELSE SelectAll(Tail(ready))

\* ------------------------------------------------------ cycle detection
RECURSIVE HasCycle(_, _, _, _), VisitDependencies(_, _, _, _)
\* has_cycle of _has_circular_dependencies: S is the key set of task_map.
HasCycle(id, S, visited, rec_stack) ==
    IF id \in rec_stack THEN [found |-> TRUE, visited |-> visited]
    ELSE IF id \in visited THEN [found |-> FALSE, visited |-> visited]
    ELSE IF id \in S
         THEN VisitDependencies(SeqOfSet(dependencies[id], NumTasks), S,
                                visited \cup {id}, rec_stack \cup {id})
         ELSE [found |-> FALSE, visited |-> visited \cup {id}]
VisitDependencies(deps, S, visited, rec_stack) ==
    IF deps = <<>> THEN [found |-> FALSE, visited |-> visited]
    ELSE LET r == HasCycle(Head(deps), S, visited, rec_stack)
         IN  IF r.found THEN r ELSE VisitDependencies(Tail(deps), S, r.visited, rec_stack)

RECURSIVE CycleFrom(_, _, _)
\* The outer loop of _has_circular_dependencies over the given tasks.
CycleFrom(ts, S, visited) ==
    IF ts = <<>> THEN FALSE
    ELSE IF Head(ts) \in visited THEN CycleFrom(Tail(ts), S, visited)
    ELSE LET r == HasCycle(Head(ts), S, visited, {})
         IN  r.found \/ CycleFrom(Tail(ts), S, r.visited)

\* _has_circular_dependencies(tasks), tasks given by their id set.
HasCircularDependencies(S) == CycleFrom(SeqOfSet(S, NumTasks), S, {})

\* --------------------------------------------------- task execution
\* _get_real_agent_implementation: a chain of comparisons of its argument with
\* the type names; anything else gives None.
GetRealAgentImplementation(agent_type) ==
    IF agent_type = "desktop" THEN "DesktopAgent()"
    ELSE IF agent_type = "vision" THEN "VisionAgent()"
    ELSE IF agent_type = "coding" THEN "CodingAgent()"
    ELSE IF agent_type = "file" THEN "FileAgent()"
    ELSE IF agent_type = "terminal" THEN "TerminalAgent()"
    ELSE IF agent_type = "browser" THEN "BrowserAgent()"
    ELSE "None"

\* Line 203 passes the AgentEntity itself, which equals none of the type names.
AgentEntityArgument == "AgentEntity"

\* `await x` goes through only for a coroutine, task or future; the method of
\* line 253 is a plain def, so what line 203 awaits is its return value.
IsAwaitable(x) == x \in {"coroutine"}

\* The except clause without its task.fail: the agent is released and the
\* task stays Running, a fault the occupancy property has to detect.
ExceptHandlerLeavesTaskRunning(t, a, msg, st, er, ags, cur, rec) ==
    [status |-> st, error |-> er,
     agent_status |-> [ags EXCEPT ![a] = "available"],
     current_task_id |-> [cur EXCEPT ![a] = NoTask],
     recent |-> rec \cup {a},
     result |-> ResultErr(msg)]

\* The except clause without its agent.complete_task(): the task is Failed and
\* the agent stays busy, a fault the release property has to detect.
ExceptHandlerKeepsAgentBusy(t, a, msg, st, er, ags, cur, rec) ==
    IF TaskFailOk(st[t])
    THEN [status |-> [st EXCEPT ![t] = FAILED],
          error |-> [er EXCEPT ![t] = msg],
          agent_status |-> ags, current_task_id |-> cur, recent |-> rec,
          result |-> ResultErr(msg)]
    ELSE [status |-> st, error |-> er, agent_status |-> ags, current_task_id |-> cur,
          recent |-> rec, result |-> ExceptionObj(FailErrorMsg)]

\* The except clause of _execute_task_with_agent (lines 242-251) for task t
\* and agent a after an exception with message msg, from the task statuses st,
\* errors er, agent statuses ags, current tasks cur and recency set rec.
\* task.fail raises when the task is not Running, and then the exception leaves
\* the coroutine before agent.complete_task().
ExceptHandler(t, a, msg, st, er, ags, cur, rec) ==
    IF TaskFailOk(st[t])
    THEN [status |-> [st EXCEPT ![t] = FAILED],
          error |-> [er EXCEPT ![t] = msg],
          agent_status |-> [ags EXCEPT ![a] = "available"],
          current_task_id |-> [cur EXCEPT ![a] = NoTask],
          recent |-> rec \cup {a},
          result |-> ResultErr(msg)]
    ELSE [status |-> st, error |-> er, agent_status |-> ags, current_task_id |-> cur,
          recent |-> rec, result |-> ExceptionObj(FailErrorMsg)]

\* PerformanceMetrics.update_with_result on a success rate in percent.
UpdateSuccessRate(rate, total, success) ==
    (rate * total + (IF success THEN 100 ELSE 0)) \div (total + 1)

RECURSIVE FoldResults(_, _, _, _, _, _, _)
\* Lines 91-109 of execute_plan from result i on: the i-th result is booked on
\* the i-th READY task.  raised is the message of the exception that left the
\* loop, or "None".
FoldResults(i, rs, st, er, completed, failed, tr) ==
    IF i > Len(rs)
    THEN [status |-> st, error |-> er, completed |-> completed, failed |-> failed,
          task_results |-> tr, raised |-> "None"]
    ELSE LET task == ready_tasks[i]
             r == rs[i]
         IN  IF r.kind = "exception"
             THEN IF TaskFailOk(st[task])
                  THEN FoldResults(i + 1, rs, [st EXCEPT ![task] = FAILED],
                                   [er EXCEPT ![task] = r.error_message],
                                   completed, Append(failed, task),
                                   [tr EXCEPT ![task] = ResultErr(r.error_message)])
                  ELSE [status |-> st, error |-> er, completed |-> completed,
                        failed |-> failed, task_results |-> tr, raised |-> FailErrorMsg]
             ELSE FoldResults(i + 1, rs, st, er,
                              IF r.success THEN Append(completed, task) ELSE completed,
                              IF r.success THEN failed ELSE Append(failed, task),
                              [tr EXCEPT ![task] = r])

\* ---------------------------------------------------------------- reports
Ratio(n, d) == [num |-> n, den |-> d]

NoReport ==
    [kind |-> "none", success |-> FALSE, completed_tasks |-> <<>>, failed_tasks |-> <<>>,
     task_results |-> [t \in Tasks |-> NoResult], success_rate |-> Ratio(0, 1),
     completion_percentage |-> Ratio(0, 1), error |-> "None"]

\* Line 112: len(completed_task_ids) / len(plan.tasks), and 0 for no tasks.
SuccessRate(completed) ==
    IF tasks = <<>> THEN Ratio(0, 1) ELSE Ratio(Len(completed), Len(tasks))

\* The dict of lines 117-126 with >= for > in line 119: a fault the majority
\* property has to detect.
FinalReportAtLeastHalf(completed, failed, tr, st) ==
    [kind |-> "report",
     success |-> 2 * SuccessRate(completed).num >= SuccessRate(completed).den,
     completed_tasks |-> completed, failed_tasks |-> failed, task_results |-> tr,
     success_rate |-> SuccessRate(completed),
     completion_percentage |-> GetCompletionPercentage(st), error |-> "None"]

\* The dict of lines 117-126; success_rate > 0.5 is 2 * num > den.
FinalReport(completed, failed, tr, st) ==
    [kind |-> "report",
     success |-> 2 * SuccessRate(completed).num > SuccessRate(completed).den,
     completed_tasks |-> completed, failed_tasks |-> failed, task_results |-> tr,
     success_rate |-> SuccessRate(completed),
     completion_percentage |-> GetCompletionPercentage(st), error |-> "None"]

\* The dict of lines 130-136.
ErrorReport(completed, failed, msg) ==
    [kind |-> "error", success |-> FALSE, completed_tasks |-> completed,
     failed_tasks |-> failed, task_results |-> [t \in Tasks |-> NoResult],
     success_rate |-> Ratio(0, 1), completion_percentage |-> Ratio(0, 1), error |-> msg]

\* No request has been handed to the planning and analysis services.
NoText == [lead |-> FALSE, words |-> <<>>, trail |-> FALSE]
NoAnalysis == [task_type |-> "none", priority |-> 0, estimated_duration |-> 0]
ServiceIdle ==
    /\ user_request = NoText
    /\ subtask_descriptions = <<>>
    /\ analysis = NoAnalysis
    /\ built_tasks = <<>>
    /\ parallel_groups = <<>>
    /\ complexity_score = 0
    /\ service_pc = "idle"

\* No TaskAnalysisService of its own has been constructed.
ClassifierIdle ==
    /\ self_analysis_rules = <<>>
    /\ analysis_calls = <<>>
\* No id has been issued.
IdentityIdle ==
    /\ generated_ids = <<>>
    /\ task_counter = 0
    /\ router_ids = <<>>
\* _has_circular_dependencies has not been called on a list of its own.
CycleIdle ==
    /\ given_tasks = <<>>
    /\ cycle_pc = "idle"
    /\ cycle_result = FALSE
\* What _execute_plan returns before it has returned.
NoPlannerReturn ==
    [kind |-> "none", completed_tasks |-> <<>>, failed_tasks |-> <<>>,
     task_results |-> {}, success_rate |-> [num |-> 0, den |-> 1], error |-> "None"]
\* No PlannerAgent has been constructed.
PlannerIdle ==
    /\ plan_tasks = <<>>
    /\ available_agents = <<>>
    /\ planner_pc = "idle"
    /\ task_index = 0
    /\ completed_tasks = <<>>
    /\ failed_tasks = <<>>
    /\ planner_results = {}
    /\ executed = <<>>
    /\ planner_return = NoPlannerReturn
ExtensionsIdle == ClassifierIdle /\ IdentityIdle /\ CycleIdle /\ PlannerIdle
IdleBesidesClassifier == IdentityIdle /\ CycleIdle /\ PlannerIdle
IdleBesidesIdentity == ClassifierIdle /\ CycleIdle /\ PlannerIdle
IdleBesidesCycle == ClassifierIdle /\ IdentityIdle /\ PlannerIdle
IdleBesidesPlanner == ClassifierIdle /\ IdentityIdle /\ CycleIdle

\* ------------------------------------------------------------------ Init
\* The orchestrator right after construction (no agent registered) and a plan
\* as built by its caller: status pending, every task Pending.
FreshEntities ==
    /\ priority = [t \in Tasks |-> MEDIUM]
    /\ plan_status = "pending"
    /\ plan_success_rate = Ratio(0, 1)
    /\ status = [t \in Tasks |-> PENDING]
    /\ assigned_agent_id = [t \in Tasks |-> NoAgent]
    /\ result = [t \in Tasks |-> "None"]
    /\ error = [t \in Tasks |-> "None"]
    /\ active_agents = <<>>
    /\ capabilities = [a \in Agents |-> {}]
    /\ agent_status = [a \in Agents |-> "available"]
    /\ current_task_id = [a \in Agents |-> NoTask]
    /\ task_queue = [a \in Agents |-> <<>>]
    /\ success_rate = [a \in Agents |-> NoMetric]
    /\ total_tasks_completed = [a \in Agents |-> 0]
    /\ recent = {}
    /\ pc = "idle"
    /\ completed_task_ids = <<>>
    /\ failed_task_ids = <<>>
    /\ task_results = [t \in Tasks |-> NoResult]
    /\ ready_tasks = <<>>
    /\ execution_tasks = <<>>
    /\ results = <<>>
    /\ idx = 0
    /\ report = NoReport
    /\ exit_reason = "none"
    /\ entry_status = "none"
    /\ executor_outcome = "none"
    /\ suitable_agents = <<>>
    /\ best_agent = NoAgent
    /\ register_calls = <<>>
    /\ other_pc = "idle"
\* The same for a plan whose tasks have up to m dependency entries in all.
ConstructedUpTo(m) ==
    /\ \E n \in 0..NumTasks :
        /\ tasks = [i \in 1..n |-> i]
        /\ dependencies \in DependencyGraphsUpTo(n, m)
        /\ task_type \in TaskTypeChoices(n)
    /\ FreshEntities
Constructed == ConstructedUpTo(MaxDependencies)

\* The Executors behind the agents may return success, return failure or raise.
Init == Constructed /\ executor_outcomes = ExecutorOutcomes /\ ServiceIdle /\ ExtensionsIdle

\* The same with Executors that always return success.
SucceedInit == Constructed /\ executor_outcomes = {"success"} /\ ServiceIdle /\ ExtensionsIdle

\* --------------------------------------------------------------- actions
\* register_agent that also counts a task for every agent registered before:
\* a fault the frame of the metrics has to detect.
RegisterAgentTouchesOthers ==
    /\ pc = "idle"
    /\ Len(active_agents) < NumAgents
    /\ LET a == Len(active_agents) + 1
       IN  \E caps \in CapabilityChoices :
             /\ active_agents' = Append(active_agents, a)
             /\ capabilities' = [capabilities EXCEPT ![a] = caps]
             /\ success_rate' = [success_rate EXCEPT ![a] = InitialSuccessRate]
             /\ recent' = recent \cup {a}
    /\ total_tasks_completed' =
           [a \in Agents |-> IF a \in Range(active_agents) THEN total_tasks_completed[a] + 1
                             ELSE total_tasks_completed[a]]
    /\ UNCHANGED <<extensionVars, serviceVars, eventLoopVars, selectVars, planVars, taskVars, localVars, agent_status,
                   current_task_id, task_queue, pc, report, exit_reason,
                   entry_status, executor_outcome, executor_outcomes>>

\* register_agent of a freshly built AgentEntity (status available, empty
\* queue, last_activity = now), before the plan is executed.
RegisterAgent ==
    /\ pc = "idle"
    /\ Len(active_agents) < NumAgents
    /\ LET a == Len(active_agents) + 1
       IN  \E caps \in CapabilityChoices :
             /\ active_agents' = Append(active_agents, a)
             /\ capabilities' = [capabilities EXCEPT ![a] = caps]
             /\ success_rate' = [success_rate EXCEPT ![a] = InitialSuccessRate]
             /\ recent' = recent \cup {a}
    /\ UNCHANGED <<extensionVars, serviceVars, eventLoopVars, selectVars, planVars, taskVars, localVars, agent_status, current_task_id,
                   task_queue, total_tasks_completed, pc, report, exit_reason,
                   entry_status, executor_outcome, executor_outcomes>>

\* self._execution_lock (lines 35 and 51) is held by the call for the other
\* plan from its entry to its return.
OtherCallHoldsLock == other_pc = "executing"
\* ... and by the call for this plan from line 51 to its return.
ThisCallHoldsLock == pc \notin {"idle", "returned", "raised"}

\* execute_plan is called (lines 46-57): plan.start_execution() stands before
\* the try, so its ValueError reaches the caller.
ExecutePlanCall ==
    /\ pc \in {"idle", "returned"}
    /\ ~OtherCallHoldsLock
    /\ entry_status' = plan_status
    /\ IF StartExecutionOk(plan_status)
       THEN /\ plan_status' = "running"
            /\ pc' = "loop"
            /\ completed_task_ids' = <<>>
            /\ failed_task_ids' = <<>>
            /\ task_results' = [t \in Tasks |-> NoResult]
            /\ UNCHANGED <<ready_tasks, execution_tasks, results, idx>>
       ELSE /\ pc' = "raised"
            /\ UNCHANGED <<plan_status, localVars>>
    /\ report' = NoReport
    /\ exit_reason' = "none"
    /\ executor_outcomes' = executor_outcomes
    /\ UNCHANGED <<extensionVars, serviceVars, eventLoopVars, selectVars, tasks, dependencies, task_type, priority, plan_success_rate,
                   taskVars, agentVars, executor_outcome>>

\* Lines 112-126 (and 128-136 when complete_execution raises).
Finish(reason) ==
    IF CompleteExecutionOk(plan_status)
    THEN /\ plan_status' = "completed"
         /\ plan_success_rate' = SuccessRate(completed_task_ids)
         /\ report' = FinalReport(completed_task_ids, failed_task_ids, task_results, status)
         /\ exit_reason' = reason
    ELSE /\ UNCHANGED <<plan_status, plan_success_rate>>
         /\ report' = ErrorReport(completed_task_ids, failed_task_ids, PlanCompleteErrorMsg)
         /\ exit_reason' = "exception"

\* Lines 62-64 with ready tasks: go on to the selection.
LoopReady ==
    /\ pc = "loop"
    /\ GetReadyTasks(completed_task_ids) # <<>>
    /\ ready_tasks' = GetReadyTasks(completed_task_ids)
    /\ pc' = "select"
    /\ UNCHANGED <<extensionVars, serviceVars, eventLoopVars, selectVars, planVars, taskVars, agentVars, completed_task_ids, failed_task_ids,
                   task_results, execution_tasks, results, idx, report, exit_reason,
                   entry_status, executor_outcome, executor_outcomes>>

\* Lines 64-68: nothing ready and nothing Pending, leave the loop.
LoopDone ==
    /\ pc = "loop"
    /\ GetReadyTasks(completed_task_ids) = <<>>
    /\ PendingTasks = {}
    /\ ready_tasks' = <<>>
    /\ Finish("done")
    /\ pc' = "returned"
    /\ UNCHANGED <<extensionVars, serviceVars, eventLoopVars, selectVars, tasks, dependencies, task_type, priority, taskVars, agentVars,
                   completed_task_ids, failed_task_ids, task_results, execution_tasks,
                   results, idx, entry_status, executor_outcome, executor_outcomes>>

\* Lines 70-73: nothing ready, Pending tasks with a cycle among them: break.
LoopDeadlock ==
    /\ pc = "loop"
    /\ GetReadyTasks(completed_task_ids) = <<>>
    /\ PendingTasks # {}
    /\ HasCircularDependencies(PendingTasks)
    /\ ready_tasks' = <<>>
    /\ Finish("deadlock")
    /\ pc' = "returned"
    /\ UNCHANGED <<extensionVars, serviceVars, eventLoopVars, selectVars, tasks, dependencies, task_type, priority, taskVars, agentVars,
                   completed_task_ids, failed_task_ids, task_results, execution_tasks,
                   results, idx, entry_status, executor_outcome, executor_outcomes>>

\* Lines 75-76: nothing ready, Pending tasks without a cycle: sleep.
LoopWait ==
    /\ pc = "loop"
    /\ GetReadyTasks(completed_task_ids) = <<>>
    /\ PendingTasks # {}
    /\ ~HasCircularDependencies(PendingTasks)
    /\ ready_tasks' = <<>>
    /\ pc' = "sleep"
    /\ UNCHANGED <<extensionVars, serviceVars, eventLoopVars, selectVars, planVars, taskVars, agentVars, completed_task_ids, failed_task_ids,
                   task_results, execution_tasks, results, idx, report, exit_reason,
                   entry_status, executor_outcome, executor_outcomes>>

\* Line 77: the sleep is over, continue with the next iteration.
Sleep ==
    /\ pc = "sleep"
    /\ pc' = "loop"
    /\ UNCHANGED <<extensionVars, serviceVars, eventLoopVars, selectVars, planVars, taskVars, agentVars, localVars, report, exit_reason,
                   entry_status, executor_outcome, executor_outcomes>>

\* Lines 80-88: select an agent for every ready task, then gather the
\* coroutines, or go straight back to line 62 when there is none.
SelectAgents ==
    /\ pc = "select"
    /\ execution_tasks' = SelectAll(ready_tasks)
    /\ results' = <<>>
    /\ IF SelectAll(ready_tasks) # <<>>
       THEN pc' = "gather" /\ idx' = 1
       ELSE pc' = "loop" /\ idx' = 0
    /\ UNCHANGED <<extensionVars, serviceVars, eventLoopVars, selectVars, planVars, taskVars, agentVars, completed_task_ids, failed_task_ids,
                   task_results, ready_tasks, report, exit_reason, entry_status,
                   executor_outcome, executor_outcomes>>

\* What follows the end of coroutine idx: the next coroutine of the batch, or
\* the result loop once gather has them all.
CoroutineReturns(r) ==
    /\ results' = Append(results, r)
    /\ IF idx < Len(execution_tasks)
       THEN pc' = "gather" /\ idx' = idx + 1
       ELSE pc' = "fold" /\ idx' = 0

\* Coroutine idx of the batch runs lines 195-200: agent.assign_task and
\* task.start; a ValueError of either goes to the except clause.  From here
\* on executor_outcome holds what the Executor of this task does if invoked.
CoroutineStart ==
    /\ pc = "gather"
    /\ LET t == execution_tasks[idx].task
           a == execution_tasks[idx].agent
           assigned == [agent_status EXCEPT ![a] = "busy"]
           current == [current_task_id EXCEPT ![a] = t]
       IN  IF ~AssignTaskOk(agent_status[a])
           THEN LET h == ExceptHandler(t, a, AssignErrorMsg, status, error, agent_status,
                                       current_task_id, recent)
                IN  /\ status' = h.status
                    /\ error' = h.error
                    /\ agent_status' = h.agent_status
                    /\ current_task_id' = h.current_task_id
                    /\ recent' = h.recent
                    /\ assigned_agent_id' = assigned_agent_id
                    /\ executor_outcome' = executor_outcome
                    /\ executor_outcomes' = executor_outcomes
                    /\ CoroutineReturns(h.result)
           ELSE IF ~TaskStartOk(status[t])
           THEN LET h == ExceptHandler(t, a, StartErrorMsg, status, error, assigned,
                                       current, recent \cup {a})
                IN  /\ status' = h.status
                    /\ error' = h.error
                    /\ agent_status' = h.agent_status
                    /\ current_task_id' = h.current_task_id
                    /\ recent' = h.recent
                    /\ assigned_agent_id' = assigned_agent_id
                    /\ executor_outcome' = executor_outcome
                    /\ executor_outcomes' = executor_outcomes
                    /\ CoroutineReturns(h.result)
           ELSE /\ agent_status' = assigned
                /\ current_task_id' = current
                /\ recent' = recent \cup {a}
                /\ status' = [status EXCEPT ![t] = RUNNING]
                /\ assigned_agent_id' = [assigned_agent_id EXCEPT ![t] = a]
                /\ error' = error
                /\ pc' = "await"
                /\ executor_outcome' \in executor_outcomes
                /\ executor_outcomes' = executor_outcomes
                /\ UNCHANGED <<results, idx>>
    /\ UNCHANGED <<extensionVars, serviceVars, eventLoopVars, selectVars, planVars, result, active_agents, capabilities, task_queue,
                   success_rate, total_tasks_completed, completed_task_ids,
                   failed_task_ids, task_results, ready_tasks, execution_tasks,
                   report, exit_reason, entry_status>>

\* Coroutine idx runs lines 203-251.  Line 203 awaits the return value of a
\* plain method: unless that is awaitable, the TypeError goes to the except
\* clause before any Executor is invoked.
CoroutineAwait ==
    /\ pc = "await"
    /\ LET o == executor_outcome
            t == execution_tasks[idx].task
            a == execution_tasks[idx].agent
            real_agent == GetRealAgentImplementation(AgentEntityArgument)
            raised == IF ~IsAwaitable(real_agent) THEN TypeErrorMsg
                      ELSE IF o = "raises" THEN ExecutorRaiseMsg
                      ELSE IF o = "success" /\ ~TaskCompleteOk(status[t]) THEN CompleteErrorMsg
                      ELSE IF o = "failure" /\ ~TaskFailOk(status[t]) THEN FailErrorMsg
                      ELSE "None"
            h == ExceptHandler(t, a, raised, status, error, agent_status,
                               current_task_id, recent)
        IN  /\ executor_outcome' = "none"
            /\ executor_outcomes' = executor_outcomes
            /\ IF raised # "None"
               THEN /\ status' = h.status
                    /\ error' = h.error
                    /\ agent_status' = h.agent_status
                    /\ current_task_id' = h.current_task_id
                    /\ recent' = h.recent
                    /\ UNCHANGED <<result, success_rate, total_tasks_completed>>
                    /\ CoroutineReturns(h.result)
               ELSE \* lines 207-240: the Executor returned
                    /\ status' = [status EXCEPT ![t] = IF o = "success" THEN COMPLETED ELSE FAILED]
                    /\ result' = [result EXCEPT ![t] = IF o = "success" THEN ExecutorData ELSE @]
                    /\ error' = [error EXCEPT ![t] = IF o = "success" THEN @ ELSE ExecutorErrorMsg]
                    /\ agent_status' = [agent_status EXCEPT ![a] = "available"]
                    /\ current_task_id' = [current_task_id EXCEPT ![a] = NoTask]
                    /\ recent' = recent \cup {a}
                    /\ IF success_rate[a] # NoMetric
                       THEN /\ success_rate' = [success_rate EXCEPT ![a] =
                                   UpdateSuccessRate(@, total_tasks_completed[a], o = "success")]
                            /\ total_tasks_completed' = [total_tasks_completed EXCEPT ![a] = @ + 1]
                       ELSE UNCHANGED <<success_rate, total_tasks_completed>>
                    /\ CoroutineReturns(IF o = "success" THEN ResultOk(ExecutorData)
                                        ELSE ResultErr(ExecutorErrorMsg))
    /\ UNCHANGED <<extensionVars, serviceVars, eventLoopVars, selectVars, planVars, assigned_agent_id, active_agents, capabilities, task_queue,
                   completed_task_ids, failed_task_ids, task_results, ready_tasks,
                   execution_tasks, report, exit_reason, entry_status>>

\* Lines 89-109: gather has returned, every result is booked, and the loop
\* goes back to line 62; an exception raised in between goes to lines 128-136.
BookResults ==
    /\ pc = "fold"
    /\ LET f == FoldResults(1, results, status, error, completed_task_ids,
                            failed_task_ids, task_results)
       IN  /\ status' = f.status
           /\ error' = f.error
           /\ completed_task_ids' = f.completed
           /\ failed_task_ids' = f.failed
           /\ task_results' = f.task_results
           /\ IF f.raised = "None"
              THEN pc' = "loop" /\ UNCHANGED <<report, exit_reason>>
              ELSE /\ pc' = "returned"
                   /\ report' = ErrorReport(f.completed, f.failed, f.raised)
                   /\ exit_reason' = "exception"
    /\ UNCHANGED <<extensionVars, serviceVars, eventLoopVars, selectVars, planVars, assigned_agent_id, result, agentVars, ready_tasks,
                   execution_tasks, results, idx, entry_status, executor_outcome, executor_outcomes>>

Next ==
    \/ RegisterAgent
    \/ ExecutePlanCall
    \/ LoopReady
    \/ LoopDone
    \/ LoopDeadlock
    \/ LoopWait
    \/ Sleep
    \/ SelectAgents
    \/ CoroutineStart
    \/ CoroutineAwait
    \/ BookResults

Spec == Init /\ [][Next]_vars

\* The steps of a running execute_plan call: the event loop keeps running the
\* coroutine and the coroutines it gathers, and the sleep of line 76 ends.
ExecutePlanStep ==
    \/ LoopReady
    \/ LoopDone
    \/ LoopDeadlock
    \/ LoopWait
    \/ Sleep
    \/ SelectAgents
    \/ CoroutineStart
    \/ CoroutineAwait
    \/ BookResults

FairSpec == Init /\ [][Next]_vars /\ WF_vars(ExecutePlanStep)

\* execute_plan with Executors that always succeed.
SucceedSpec == SucceedInit /\ [][Next]_vars

\* ------------------------------------------- callers of the task entity
\* What a caller passes to complete and to fail.
ResultChoices == {"caller data"}
ErrorChoices == {"caller error"}

\* Code outside the orchestrator runs while no execute_plan call is on its
\* way or while the call is suspended in the sleep of line 76.
CallerRuns == pc \in {"idle", "sleep", "returned", "raised"}

\* TaskEntity.start(agent_id) called on a task of the plan: the ValueError of
\* line 37 leaves the task as it is.
TaskStart ==
    /\ CallerRuns
    /\ \E t \in Range(tasks), a \in Agents :
           IF TaskStartOk(status[t])
           THEN /\ status' = [status EXCEPT ![t] = RUNNING]
                /\ assigned_agent_id' = [assigned_agent_id EXCEPT ![t] = a]
           ELSE UNCHANGED <<status, assigned_agent_id>>
    /\ UNCHANGED <<extensionVars, serviceVars, eventLoopVars, selectVars, planVars, result, error, agentVars, localVars, pc, report,
                   exit_reason, entry_status, executor_outcome, executor_outcomes>>

\* TaskEntity.complete(result, duration), with the ValueError of line 46.
TaskComplete ==
    /\ CallerRuns
    /\ \E t \in Range(tasks), r \in ResultChoices :
           IF TaskCompleteOk(status[t])
           THEN /\ status' = [status EXCEPT ![t] = COMPLETED]
                /\ result' = [result EXCEPT ![t] = r]
           ELSE UNCHANGED <<status, result>>
    /\ UNCHANGED <<extensionVars, serviceVars, eventLoopVars, selectVars, planVars, assigned_agent_id, error, agentVars, localVars, pc,
                   report, exit_reason, entry_status, executor_outcome, executor_outcomes>>

\* TaskEntity.fail(error, duration), with the ValueError of line 56.
TaskFail ==
    /\ CallerRuns
    /\ \E t \in Range(tasks), e \in ErrorChoices :
           IF TaskFailOk(status[t])
           THEN /\ status' = [status EXCEPT ![t] = FAILED]
                /\ error' = [error EXCEPT ![t] = e]
           ELSE UNCHANGED <<status, error>>
    /\ UNCHANGED <<extensionVars, serviceVars, eventLoopVars, selectVars, planVars, assigned_agent_id, result, agentVars, localVars, pc,
                   report, exit_reason, entry_status, executor_outcome, executor_outcomes>>

\* The plans of file operations that are independent tasks or one chain, as
\* create_execution_plan builds them (lines 36-46 and 73-76).
\* One agent for file operations is registered.
BuiltPlan ==
    /\ \E n \in 0..NumTasks : tasks = [i \in 1..n |-> i]
    /\ task_type = [t \in Tasks |-> "file_operations"]
    /\ \/ dependencies = [t \in Tasks |-> {}]
       \/ dependencies = [t \in Tasks |-> IF 1 < t /\ t <= Len(tasks) THEN {t - 1} ELSE {}]
    /\ priority = [t \in Tasks |-> MEDIUM]
    /\ plan_status = "pending"
    /\ plan_success_rate = Ratio(0, 1)
    /\ status = [t \in Tasks |-> PENDING]
    /\ assigned_agent_id = [t \in Tasks |-> NoAgent]
    /\ result = [t \in Tasks |-> "None"]
    /\ error = [t \in Tasks |-> "None"]
    /\ active_agents = <<1>>
    /\ capabilities = [a \in Agents |-> IF a = 1 THEN {"file_operations"} ELSE {}]
    /\ agent_status = [a \in Agents |-> "available"]
    /\ current_task_id = [a \in Agents |-> NoTask]
    /\ task_queue = [a \in Agents |-> <<>>]
    /\ success_rate = [a \in Agents |-> IF a = 1 THEN InitialSuccessRate ELSE NoMetric]
    /\ total_tasks_completed = [a \in Agents |-> 0]
    /\ recent = {1}
    /\ pc = "idle"
    /\ completed_task_ids = <<>>
    /\ failed_task_ids = <<>>
    /\ task_results = [t \in Tasks |-> NoResult]
    /\ ready_tasks = <<>>
    /\ execution_tasks = <<>>
    /\ results = <<>>
    /\ idx = 0
    /\ report = NoReport
    /\ exit_reason = "none"
    /\ entry_status = "none"
    /\ executor_outcome = "none"
    /\ executor_outcomes = ExecutorOutcomes
    /\ suitable_agents = <<>>
    /\ best_agent = NoAgent
    /\ register_calls = <<>>
    /\ other_pc = "idle"
    /\ ServiceIdle
    /\ ExtensionsIdle

\* execute_plan with callers that drive the tasks of the plan themselves; these
\* plans have no cycle, so the break of line 73 is not among the steps.
EntityNext ==
    \/ ExecutePlanCall
    \/ LoopReady
    \/ LoopDone
    \/ LoopWait
    \/ Sleep
    \/ SelectAgents
    \/ CoroutineStart
    \/ CoroutineAwait
    \/ BookResults
    \/ TaskStart
    \/ TaskComplete
    \/ TaskFail

EntitySpec == BuiltPlan /\ [][EntityNext]_vars

\* ------------------------------------ other coroutines on the event loop
\* A coroutine other than execute_plan runs only while no execute_plan call is
\* on its way or while the call is suspended: in the sleep of line 76, or in
\* the gather of line 89 before, between or after the coroutines of the batch.
\* The awaits of lines 81 and 203 never suspend: _select_best_agent has no
\* await of its own, and line 203 raises before it suspends.
EventLoopYields == pc \in {"idle", "returned", "raised", "sleep", "gather"}

\* register_agent(agent) is called from another coroutine, a timer or a
\* request handler: the call is scheduled on the event loop.
RegisterAgentCalled ==
    /\ Len(active_agents) + Len(register_calls) < NumAgents
    /\ \E caps \in CapabilityChoices : register_calls' = Append(register_calls, caps)
    /\ UNCHANGED <<extensionVars, serviceVars, selectVars, planVars, taskVars, agentVars, localVars, pc, report,
                   exit_reason, entry_status, executor_outcome, executor_outcomes, other_pc>>

\* The event loop runs the scheduled register_agent call (lines 37-44).
RegisterAgentRuns ==
    /\ EventLoopYields
    /\ register_calls # <<>>
    /\ LET a == Len(active_agents) + 1
       IN  /\ active_agents' = Append(active_agents, a)
           /\ capabilities' = [capabilities EXCEPT ![a] = Head(register_calls)]
           /\ success_rate' = [success_rate EXCEPT ![a] = InitialSuccessRate]
           /\ recent' = recent \cup {a}
    /\ register_calls' = Tail(register_calls)
    /\ UNCHANGED <<extensionVars, serviceVars, selectVars, planVars, taskVars, localVars, agent_status, current_task_id,
                   task_queue, total_tasks_completed, pc, report, exit_reason,
                   entry_status, executor_outcome, executor_outcomes, other_pc>>

\* execute_plan(other_plan) is called on the same orchestrator and reaches the
\* async with of line 51: it goes on when the lock is free and waits otherwise.
OtherPlanCall ==
    /\ EventLoopYields
    /\ other_pc = "idle"
    /\ other_pc' = IF ThisCallHoldsLock THEN "line51" ELSE "executing"
    /\ UNCHANGED <<extensionVars, serviceVars, selectVars, planVars, taskVars, agentVars, localVars, pc, report,
                   exit_reason, entry_status, executor_outcome, executor_outcomes,
                   register_calls>>

\* The lock is released (the end of the async with block of the call for this
\* plan) and the waiting call for the other plan gets it.
OtherPlanEnters ==
    /\ other_pc = "line51"
    /\ ~ThisCallHoldsLock
    /\ other_pc' = "executing"
    /\ UNCHANGED <<extensionVars, serviceVars, selectVars, planVars, taskVars, agentVars, localVars, pc, report,
                   exit_reason, entry_status, executor_outcome, executor_outcomes,
                   register_calls>>

\* The call for the other plan runs lines 54-136 and returns, which releases
\* the lock.
OtherPlanReturns ==
    /\ other_pc = "executing"
    /\ other_pc' = "returned"
    /\ UNCHANGED <<extensionVars, serviceVars, selectVars, planVars, taskVars, agentVars, localVars, pc, report,
                   exit_reason, entry_status, executor_outcome, executor_outcomes,
                   register_calls>>

\* Plans of independent tasks or of one chain, of either kind of task, and an
\* empty registry: every agent comes through a register_agent call.
EventLoopInit ==
    /\ Init
    /\ tasks # <<>>
    /\ \/ dependencies = [t \in Tasks |-> {}]
       \/ dependencies = [t \in Tasks |-> IF 1 < t /\ t <= Len(tasks) THEN {t - 1} ELSE {}]

\* These plans have no cycle, so the break of line 73 is not among the steps.
EventLoopNext ==
    \/ ExecutePlanCall
    \/ LoopReady
    \/ LoopDone
    \/ LoopWait
    \/ Sleep
    \/ SelectAgents
    \/ CoroutineStart
    \/ CoroutineAwait
    \/ BookResults
    \/ RegisterAgentCalled
    \/ RegisterAgentRuns
    \/ OtherPlanCall
    \/ OtherPlanEnters
    \/ OtherPlanReturns

EventLoopSpec == EventLoopInit /\ [][EventLoopNext]_vars

\* The event loop keeps running execute_plan, and runs a scheduled
\* register_agent call whenever execute_plan leaves it the turn.
FairEventLoopSpec ==
    EventLoopInit /\ [][EventLoopNext]_vars
        /\ WF_vars(ExecutePlanStep) /\ WF_vars(RegisterAgentRuns)

\* ------------------------------------------------ agent selection alone
\* The longest task_queue of a registered agent.
MaxQueueLength == 1
\* The priorities of the task an agent is selected for.
PriorityChoices == {MEDIUM, HIGH}
\* performance_metrics of a registered agent: without 'success_rate', or 1.0.
SuccessRateChoices == {NoMetric, InitialSuccessRate}
\* The queues: add_to_queue has put up to MaxQueueLength ids on them.
QueueChoices == {[i \in 1..n |-> 1] : n \in 0..MaxQueueLength}

\* A registry of agents in any state a registered AgentEntity can be in
\* (available or busy, with or without queued tasks, metrics and recent
\* activity), and the one task an agent is wanted for.
Registry ==
    /\ tasks = <<1>>
    /\ dependencies = [t \in Tasks |-> {}]
    /\ task_type = [t \in Tasks |-> "file_operations"]
    /\ \E p \in PriorityChoices : priority = [t \in Tasks |-> IF t = 1 THEN p ELSE MEDIUM]
    /\ plan_status = "pending"
    /\ plan_success_rate = Ratio(0, 1)
    /\ status = [t \in Tasks |-> PENDING]
    /\ assigned_agent_id = [t \in Tasks |-> NoAgent]
    /\ result = [t \in Tasks |-> "None"]
    /\ error = [t \in Tasks |-> "None"]
    /\ \E n \in 0..NumAgents :
        /\ active_agents = [i \in 1..n |-> i]
        /\ capabilities \in [Agents -> CapabilityChoices \cup {{}}]
        /\ agent_status \in [Agents -> {"available", "busy"}]
        /\ task_queue \in [Agents -> QueueChoices]
        /\ success_rate \in [Agents -> SuccessRateChoices]
        /\ recent \in SUBSET (1..n)
        /\ \A a \in Agents :
               /\ a > n => /\ capabilities[a] = {}
                            /\ agent_status[a] = "available"
                            /\ task_queue[a] = <<>>
                            /\ success_rate[a] = NoMetric
               /\ a <= n => capabilities[a] # {}
    /\ current_task_id = [a \in Agents |-> IF agent_status[a] = "busy" THEN 2 ELSE NoTask]
    /\ total_tasks_completed = [a \in Agents |-> 0]
    /\ pc = "select_best_agent"
    /\ completed_task_ids = <<>>
    /\ failed_task_ids = <<>>
    /\ task_results = [t \in Tasks |-> NoResult]
    /\ ready_tasks = <<1>>
    /\ execution_tasks = <<>>
    /\ results = <<>>
    /\ idx = 0
    /\ report = NoReport
    /\ exit_reason = "none"
    /\ entry_status = "none"
    /\ executor_outcome = "none"
    /\ executor_outcomes = ExecutorOutcomes
    /\ suitable_agents = <<>>
    /\ best_agent = NoAgent
    /\ register_calls = <<>>
    /\ other_pc = "idle"
    /\ ServiceIdle
    /\ ExtensionsIdle

\* _select_best_agent(task 1), lines 138-158: suitable_agents is the list as
\* line 154 leaves it, best_agent the return value.
SelectBestAgentCall ==
    /\ pc = "select_best_agent"
    /\ suitable_agents' = SortDescending(ScoredAgents(1))
    /\ best_agent' = SelectBestAgent(1)
    /\ pc' = "selected"
    /\ UNCHANGED <<extensionVars, serviceVars, eventLoopVars, planVars, taskVars, agentVars, localVars, report, exit_reason,
                   entry_status, executor_outcome, executor_outcomes>>

SelectionNext == SelectBestAgentCall

SelectionSpec == Registry /\ [][SelectionNext]_vars

\* ------------------------------------------------- the report of a run
\* The orderings of the set S: the lists that hold every member once.
Orderings(S) == {q \in [1..Cardinality(S) -> S] : Range(q) = S}

\* execute_plan at line 62 in an iteration that leaves the loop: every task the
\* loop has booked is Completed and in completed_task_ids, or Failed and in
\* failed_task_ids, in the order of booking; what is still Pending is not
\* ready and lies behind a cycle.  One agent has run the tasks.
LoopExit ==
    /\ \E n \in 0..NumTasks :
        /\ tasks = [i \in 1..n |-> i]
        /\ dependencies \in DependencyGraphs(n)
        /\ task_type = [t \in Tasks |-> "file_operations"]
        /\ status \in [Tasks -> {PENDING, COMPLETED, FAILED}]
        /\ \A t \in Tasks : t > n => status[t] = PENDING
    /\ priority = [t \in Tasks |-> MEDIUM]
    /\ plan_status = "running"
    /\ plan_success_rate = Ratio(0, 1)
    /\ assigned_agent_id = [t \in Tasks |-> IF status[t] = PENDING THEN NoAgent ELSE 1]
    /\ result = [t \in Tasks |-> IF status[t] = COMPLETED THEN ExecutorData ELSE "None"]
    /\ error = [t \in Tasks |-> IF status[t] = FAILED THEN ExecutorErrorMsg ELSE "None"]
    /\ active_agents = <<1>>
    /\ capabilities = [a \in Agents |-> IF a = 1 THEN {"file_operations"} ELSE {}]
    /\ agent_status = [a \in Agents |-> "available"]
    /\ current_task_id = [a \in Agents |-> NoTask]
    /\ task_queue = [a \in Agents |-> <<>>]
    /\ success_rate = [a \in Agents |-> NoMetric]
    /\ total_tasks_completed = [a \in Agents |-> 0]
    /\ recent = {1}
    /\ pc = "loop"
    /\ completed_task_ids \in Orderings({t \in Range(tasks) : status[t] = COMPLETED})
    /\ failed_task_ids \in Orderings({t \in Range(tasks) : status[t] = FAILED})
    /\ task_results = [t \in Tasks |->
                          IF status[t] = COMPLETED THEN ResultOk(ExecutorData)
                          ELSE IF status[t] = FAILED THEN ResultErr(ExecutorErrorMsg)
                          ELSE NoResult]
    /\ GetReadyTasks(completed_task_ids) = <<>>
    /\ PendingTasks # {} => HasCircularDependencies(PendingTasks)
    /\ ready_tasks = <<>>
    /\ execution_tasks = <<>>
    /\ results = <<>>
    /\ idx = 0
    /\ report = NoReport
    /\ exit_reason = "none"
    /\ entry_status = "pending"
    /\ executor_outcome = "none"
    /\ executor_outcomes = ExecutorOutcomes
    /\ suitable_agents = <<>>
    /\ best_agent = NoAgent
    /\ register_calls = <<>>
    /\ other_pc = "idle"
    /\ ServiceIdle
    /\ ExtensionsIdle

\* Lines 64-73 and 111-126 from such a state: the loop is left and the report
\* is built.
ReportNext ==
    \/ LoopDone
    \/ LoopDeadlock

ReportSpec == LoopExit /\ [][ReportNext]_vars

\* ------------------------------------------------------------ properties
PlanTasks == Range(tasks)
Terminal == {COMPLETED, FAILED}

RECURSIVE ReachN(_, _)
\* The ids reached from the set S along at most n more dependency edges.
ReachN(S, n) ==
    IF n = 0 THEN S ELSE ReachN(S \cup UNION {dependencies[d] : d \in S}, n - 1)

\* The tasks t depends on, directly or not.
DependsOn(t) == ReachN(dependencies[t], NumTasks)
\* The tasks that lie on a dependency cycle.
CyclicTasks == {t \in PlanTasks : t \in DependsOn(t)}
AcyclicPlan == CyclicTasks = {}

\* The task of the coroutine that is running.
CurrentTask == execution_tasks[idx].task
\* The ready tasks of the current batch for which selection returned none.
Unassigned ==
    IF pc \in {"gather", "await", "fold"}
    THEN Range(ready_tasks) \ {execution_tasks[j].task : j \in 1..Len(execution_tasks)}
    ELSE {}
\* The messages of results that come from the except clause of a coroutine.
RaisedMessages ==
    {TypeErrorMsg, ExecutorRaiseMsg, StartErrorMsg, AssignErrorMsg, CompleteErrorMsg,
     FailErrorMsg}
\* The failure reasons the specification names.
DependencyDeadlock == "DependencyDeadlock"
AgentUnavailable == "AgentUnavailable"

\* C1: for an acyclic plan, whatever the registry and the executors, a call of
\* execute_plan that has entered its loop returns, and then every task of the
\* plan is Completed or Failed.
C1_AcyclicPlanTerminates ==
    (pc = "loop" /\ AcyclicPlan)
        ~> (pc = "returned" /\ \A t \in PlanTasks : status[t] \in Terminal)

\* C2: a task goes from Pending to Running only in a step before which every
\* id of its dependency list is a task of the plan in status Completed.
C2_StartsOnlyAfterDependencies ==
    [][\A t \in PlanTasks :
          (status[t] = PENDING /\ status'[t] = RUNNING)
              => \A d \in dependencies[t] : d \in PlanTasks /\ status[d] = COMPLETED]_vars

\* C2 witness: a task has been started while a task that names a dependency
\* is held back in Pending.
C2_Witness ==
    \E t, u \in PlanTasks :
        /\ status[t] = RUNNING
        /\ status[u] = PENDING
        /\ dependencies[u] # {}

\* C3: no agent is the assigned executor of two tasks that are Running at the
\* same time.
C3_NoAgentRunsTwoTasks ==
    \A t, u \in PlanTasks :
        (t # u /\ status[t] = RUNNING /\ status[u] = RUNNING)
            => assigned_agent_id[t] # assigned_agent_id[u]

\* C3 witness: two tasks of one batch were given the same agent, and the
\* second runs on it after the first has ended.
C3_Witness ==
    \E t, u \in PlanTasks :
        /\ t # u
        /\ status[t] = FAILED
        /\ status[u] = RUNNING
        /\ assigned_agent_id[t] = assigned_agent_id[u]
        /\ agent_status[assigned_agent_id[u]] = "busy"
        /\ current_task_id[assigned_agent_id[u]] = u

\* A call of execute_plan on a plan in status pending never ends by raising,
\* and what it returns is a report.
PendingPlanNeverRaises ==
    /\ pc = "raised" => entry_status # "pending"
    /\ pc = "returned" => report.kind \in {"report", "error"}

\* C4: a call of execute_plan on a well-formed (pending) plan always returns a
\* report to its caller and never raises, whatever the Executors do.
C4_AlwaysReturnsReport ==
    /\ []PendingPlanNeverRaises
    /\ (pc = "loop") ~> (pc = "returned" /\ report.kind \in {"report", "error"})

\* C5: when the execution of a task of the batch has raised, every other task
\* dispatched in the batch still ends in the state its own Executor outcome
\* dictates: Completed on success, Failed otherwise.
C5_RaiseLeavesSiblingsAlone ==
    [][(/\ pc = "await"
        /\ \E j \in 1..Len(results) : results[j].error_message \in RaisedMessages)
          => status'[CurrentTask] =
                 IF executor_outcome = "success" THEN COMPLETED ELSE FAILED]_vars

\* C6: the terminal status of a dispatched task follows its Executor: a
\* returned success gives Completed with the returned data as result, a
\* returned failure or a raise gives Failed with the returned or raised message
\* as error.
C6_StatusFollowsExecutor ==
    [][pc = "await" =>
          /\ executor_outcome = "success" =>
                 status'[CurrentTask] = COMPLETED /\ result'[CurrentTask] = ExecutorData
          /\ executor_outcome = "failure" =>
                 status'[CurrentTask] = FAILED /\ error'[CurrentTask] = ExecutorErrorMsg
          /\ executor_outcome = "raises" =>
                 status'[CurrentTask] = FAILED /\ error'[CurrentTask] = ExecutorRaiseMsg]_vars

\* C7: when the loop is left because a cycle was found among the Pending
\* tasks, every task that was still Pending is Failed with reason
\* DependencyDeadlock and the report lists it as failed.
C7_DeadlockFailsPendingTasks ==
    (pc = "returned" /\ exit_reason = "deadlock")
        => \A t \in PlanTasks :
              assigned_agent_id[t] = NoAgent
                  => /\ status[t] = FAILED
                     /\ error[t] = DependencyDeadlock
                     /\ t \in Range(report.failed_tasks)

\* C8: when execute_plan returns for a plan with a dependency cycle, the tasks
\* with reason DependencyDeadlock are exactly the tasks on a cycle, and every
\* task that neither lies on a cycle nor depends on one has been executed and
\* is Completed or Failed.
C8_DeadlockExactlyForCyclicTasks ==
    (pc = "returned" /\ entry_status = "pending" /\ ~AcyclicPlan)
        => \A t \in PlanTasks :
              /\ t \in CyclicTasks <=> error[t] = DependencyDeadlock
              /\ (t \notin CyclicTasks /\ DependsOn(t) \cap CyclicTasks = {})
                     => status[t] \in Terminal /\ assigned_agent_id[t] # NoAgent

\* C9: a ready task for which selection finds no agent ends up Failed with
\* reason AgentUnavailable in a returned report; for a plan of this one task
\* the report has success = false.
C9_NoAgentFailsTask ==
    \A t \in Tasks :
        (pc = "select" /\ t \in Range(ready_tasks) /\ SelectBestAgent(t) = NoAgent)
            ~> (/\ pc = "returned"
                /\ status[t] = FAILED
                /\ error[t] = AgentUnavailable
                /\ t \in Range(report.failed_tasks)
                /\ Len(tasks) = 1 => ~report.success)

\* C10: a ready task for which selection returned none is untouched by its
\* readiness cycle: it stays Pending without an agent, and its id enters
\* neither completed_task_ids nor failed_task_ids nor task_results.
C10_UnassignedTaskUntouched ==
    [][\A t \in Unassigned :
          /\ status'[t] = PENDING
          /\ assigned_agent_id'[t] = NoAgent
          /\ t \in Range(completed_task_ids') <=> t \in Range(completed_task_ids)
          /\ t \in Range(failed_task_ids') <=> t \in Range(failed_task_ids)
          /\ task_results'[t] = task_results[t]]_vars

\* The timeout reason the specification names.
PlanTimeout == "PlanTimeout"

\* C11: the wait of lines 75-77 is bounded: a task that is Pending while
\* execute_plan waits (nothing ready, no cycle) is in the end Failed with a
\* timeout reason, and execute_plan has returned.
C11_WaitLoopBounded ==
    \A t \in Tasks :
        (pc = "sleep" /\ t \in PlanTasks /\ status[t] = PENDING)
            ~> (pc = "returned" /\ status[t] = FAILED /\ error[t] = PlanTimeout)

\* Two tasks without dependencies and two registered agents that can each
\* handle both.
TwoTasksTwoAgents ==
    /\ Len(tasks) = 2
    /\ \A t \in PlanTasks : dependencies[t] = {}
    /\ Len(active_agents) = 2
    /\ \A a \in Range(active_agents) : \A t \in PlanTasks : CanHandleTask(a, task_type[t])

\* C12: with two independent tasks, two capable available agents and
\* succeeding Executors, both tasks are dispatched in one readiness cycle, and
\* the report shows both Completed with a success rate of 1.0.
C12_BothDispatchedBothCompleted ==
    TwoTasksTwoAgents =>
        /\ pc \in {"gather", "await", "fold"} => Len(execution_tasks) = 2
        /\ (pc = "returned" /\ entry_status = "pending") =>
               /\ report.kind = "report"
               /\ Range(report.completed_tasks) = PlanTasks
               /\ \A t \in PlanTasks : status[t] = COMPLETED
               /\ report.success_rate = Ratio(2, 2)

\* The number of tasks of the plan that are Completed.
CompletedCount == Cardinality({t \in PlanTasks : status[t] = COMPLETED})

\* C13: the success flag of the report is true exactly when the Completed
\* tasks are more than half of the plan's tasks; the success rate of an empty
\* plan is 0, and exactly half gives success = false.
C13_SuccessIsMajorityCompleted ==
    (pc = "returned" /\ report.kind = "report") =>
        /\ report.success <=> 2 * CompletedCount > Len(tasks)
        /\ report.success_rate.num * Len(tasks) = CompletedCount * report.success_rate.den
        /\ tasks = <<>> => report.success_rate.num = 0
        /\ 2 * CompletedCount = Len(tasks) => ~report.success

\* C13 witness: a report for a plan of which exactly half of the tasks
\* completed, with success = false.
C13_Witness ==
    /\ pc = "returned"
    /\ report.kind = "report"
    /\ Len(tasks) = 2
    /\ CompletedCount = 1
    /\ ~report.success

\* A task of the plan names a dependency that is the id of no task of the plan.
DanglingDependency == \E t \in PlanTasks : ~(dependencies[t] \subseteq PlanTasks)

\* C14: a plan with a dependency on an id outside the plan is rejected before
\* execution: execute_plan never enters its readiness loop with it, no task of
\* it becomes Running and there is no waiting.
C14_DanglingDependencyRejected ==
    DanglingDependency =>
        /\ pc \in {"idle", "raised"}
        /\ \A t \in PlanTasks : status[t] = PENDING

\* C15: the step that takes a dispatched task out of Running, whatever the
\* outcome, leaves its agent available with no current task; and when
\* execute_plan has returned no registered agent is occupied.
C15_AgentReleased ==
    /\ [][\A t \in PlanTasks :
             (status[t] = RUNNING /\ status'[t] \in Terminal)
                 => /\ agent_status'[assigned_agent_id[t]] = "available"
                    /\ current_task_id'[assigned_agent_id[t]] = NoTask]_vars
    /\ [](pc = "returned" =>
             \A a \in Range(active_agents) :
                 agent_status[a] = "available" /\ current_task_id[a] = NoTask)

\* C15 witness: execute_plan has returned, and the agent that ran a task of
\* the plan is available again.
C15_Witness ==
    /\ pc = "returned"
    /\ \E t \in PlanTasks :
           /\ status[t] \in Terminal
           /\ assigned_agent_id[t] # NoAgent
           /\ agent_status[assigned_agent_id[t]] = "available"
           /\ current_task_id[assigned_agent_id[t]] = NoTask

\* C16: the step that takes a dispatched task to Completed or Failed updates
\* the rolling metrics of its agent once: the count of completed tasks grows by
\* one and the success rate takes in the outcome, whatever metrics the agent
\* was registered with.
C16_MetricsUpdatedOnce ==
    [][\A t \in PlanTasks :
          (status[t] = RUNNING /\ status'[t] \in Terminal) =>
              LET a == assigned_agent_id[t]
                  rate == IF success_rate[a] = NoMetric THEN 0 ELSE success_rate[a]
              IN  /\ total_tasks_completed'[a] = total_tasks_completed[a] + 1
                  /\ success_rate'[a] =
                         UpdateSuccessRate(rate, total_tasks_completed[a],
                                           status'[t] = COMPLETED)]_vars

\* Agent a is registered, unoccupied and declares the kind of task t.
Qualifies(a, t) ==
    /\ a \in Range(active_agents)
    /\ agent_status[a] = "available"
    /\ task_type[t] \in capabilities[a]

\* C17: _select_best_agent returns only an agent that is available and whose
\* capabilities hold the kind of the task, and it returns none exactly when no
\* registered agent is both.
C17_SelectsOnlyQualifyingAgent ==
    pc = "selected" =>
        /\ best_agent # NoAgent => Qualifies(best_agent, 1)
        /\ best_agent = NoAgent <=> ~\E a \in Range(active_agents) : Qualifies(a, 1)

\* C17 witness: the first agent of the registry is capable but busy, and the
\* second one is returned.
C17_Witness ==
    /\ pc = "selected"
    /\ Len(active_agents) >= 2
    /\ agent_status[1] = "busy"
    /\ task_type[1] \in capabilities[1]
    /\ best_agent = 2

\* C18: the agent returned has the maximal score among the qualifying agents,
\* and among those of maximal score it is the first in registration order.
C18_MaxScoreFirstRegistered ==
    (pc = "selected" /\ best_agent # NoAgent) =>
        \A a \in Range(active_agents) :
            Qualifies(a, 1) =>
                /\ CalculateAgentScore(a, 1) <= CalculateAgentScore(best_agent, 1)
                /\ CalculateAgentScore(a, 1) = CalculateAgentScore(best_agent, 1)
                       => best_agent <= a

\* C18 witness: two qualifying agents tie for the maximum and the one
\* registered first is returned.
C18_Witness ==
    /\ pc = "selected"
    /\ Qualifies(1, 1) /\ Qualifies(2, 1)
    /\ CalculateAgentScore(1, 1) = CalculateAgentScore(2, 1)
    /\ best_agent = 1

\* The score as the specification gives it, for a success rate in percent.
SpecifiedScore(a, t) ==
    (IF success_rate[a] # NoMetric THEN (50 * success_rate[a]) \div 100 ELSE 0)
        - 5 * Len(task_queue[a])
        + (IF task_type[t] \in capabilities[a] THEN 30 ELSE 0)
        + (IF priority[t] >= HIGH THEN 20 ELSE 0)
        + (IF a \in recent THEN 10 ELSE 0)

\* C19: the score computed for a candidate is 50 x successRate - 5 x
\* queueLength + 30 for the kind + 20 for a high or critical priority + the
\* recency bonus: a queued task lowers it by exactly 5.
C19_ScoreFormula ==
    pc = "selected" =>
        \A i \in 1..Len(suitable_agents) :
            suitable_agents[i].score = SpecifiedScore(suitable_agents[i].agent, 1)

\* The status changes TaskEntity allows.
Transitions == {<<PENDING, RUNNING>>, <<RUNNING, COMPLETED>>, <<RUNNING, FAILED>>}

\* C20: a step changes the status of a task only along Pending to Running,
\* Running to Completed or Running to Failed, and a task that is Completed or
\* Failed keeps its status, result and error, whatever start, complete and
\* fail calls are made and however execute_plan runs.
C20_StatusTransitionsFinal ==
    [][\A t \in PlanTasks :
          /\ status'[t] # status[t] => <<status[t], status'[t]>> \in Transitions
          /\ status[t] \in Terminal =>
                 /\ status'[t] = status[t]
                 /\ result'[t] = result[t]
                 /\ error'[t] = error[t]]_vars

\* C20 witness: one task was completed by calls of its own methods, another
\* was failed by a run of execute_plan, which has returned.
C20_Witness ==
    /\ pc = "returned"
    /\ \E t, u \in PlanTasks :
           /\ status[t] = COMPLETED /\ result[t] \in ResultChoices
           /\ status[u] = FAILED /\ error[u] = TypeErrorMsg

\* ------------------------------------------------------------ C21..C30
\* A completion percentage of 100.
IsHundredPercent(r) == r.num = r.den

\* C21: while the plan's status is 'completed', every task of the plan is
\* Completed or Failed and get_completion_percentage gives 100.
C21_CompletedPlanAllTerminal ==
    plan_status = "completed" =>
        /\ \A t \in PlanTasks : status[t] \in Terminal
        /\ IsHundredPercent(GetCompletionPercentage(status))

\* A step between the computation of the ready set and the end of the
\* dispatch of its batch leaves the completed list alone, and with it the
\* status of every dependency of a ready task that still waits for dispatch.
ReadinessHolds ==
    pc \in {"select", "gather", "await"} =>
        /\ completed_task_ids' = completed_task_ids
        /\ \A t \in Range(ready_tasks) :
               status[t] = PENDING =>
                   \A d \in dependencies[t] \cap PlanTasks : status'[d] = status[d]

\* C22: whenever the ready set is computed (line 62) no task of the plan is
\* Running, and from that computation until the batch has been dispatched
\* neither the completed list nor the status of a dependency of a ready task
\* that still waits for its dispatch changes.
C22_ReadinessAfterWholeBatch ==
    /\ [](pc = "loop" => \A t \in PlanTasks : status[t] # RUNNING)
    /\ [][ReadinessHolds]_vars

\* C22 witness: a batch of two coroutines has finished and the loop is back at
\* the computation of the ready set.
C22_Witness ==
    /\ pc = "loop"
    /\ Len(results) = 2
    /\ \E t, u \in PlanTasks : t # u /\ status[t] = FAILED /\ status[u] = FAILED

\* The task t of a plan in execution is ready and no registered agent can
\* take it.
WaitsForAgent(t) ==
    /\ ThisCallHoldsLock
    /\ t \in PlanTasks
    /\ status[t] = PENDING
    /\ CanStart(t, completed_task_ids)
    /\ SelectBestAgent(t) = NoAgent

\* A register_agent call for an agent that can take t is scheduled.
CapableAgentComes(t) ==
    \E i \in 1..Len(register_calls) : task_type[t] \in register_calls[i]

\* C23: when register_agent is called for a capable agent while execute_plan
\* is in progress and a ready task waits for lack of a capable agent, the
\* agent is registered and the task is dispatched to an agent.
C23_LateAgentGetsWaitingTask ==
    \A t \in Tasks :
        (WaitsForAgent(t) /\ CapableAgentComes(t)) ~> (assigned_agent_id[t] # NoAgent)

\* C24: a call of execute_plan for another plan is never held at line 51
\* while this plan is in execution.
C24_PlansExecuteSideBySide == other_pc = "line51" => ~ThisCallHoldsLock

\* The performance metrics of agent a change in this step.
MetricsChange(a) ==
    \/ success_rate'[a] # success_rate[a]
    \/ total_tasks_completed'[a] # total_tasks_completed[a]

\* C25: the performance metrics of a registered agent change only in a step
\* in which a task assigned to that agent goes from Running to Completed or
\* Failed; registrations, selection, dispatch and the terminal transitions of
\* tasks of other agents leave them as they are.
C25_MetricsFrame ==
    [][\A a \in Range(active_agents) :
          MetricsChange(a) =>
              \E t \in PlanTasks :
                  /\ assigned_agent_id[t] = a
                  /\ status[t] = RUNNING
                  /\ status'[t] \in Terminal]_vars

\* C25 witness: two agents are registered, a task dispatched to the first has
\* made its terminal transition, the run has returned, and the second agent
\* still has the metrics it was registered with.
C25_Witness ==
    /\ pc = "returned"
    /\ Len(active_agents) = 2
    /\ \E t \in PlanTasks : assigned_agent_id[t] = 1 /\ status[t] \in Terminal
    /\ \A t \in PlanTasks : assigned_agent_id[t] # 2
    /\ success_rate[2] = InitialSuccessRate
    /\ total_tasks_completed[2] = 0

\* ------------------------------------------------------- request texts
\* The longest request, in words of the vocabulary.
MaxWords == 5

\* A request text is a list of words separated by single blanks, with or
\* without a blank in front and at the end.  LongPhrase stands for a run of
\* nine words that match no pattern, keyword or marker.
LongPhrase == "the quick brown fox jumps over the lazy dog"
LongPhraseWords == 9
Text(lead, words, trail) == [lead |-> lead, words |-> words, trail |-> trail]
WordLists(vocabulary) == UNION {[1..k -> vocabulary] : k \in 0..MaxWords}

\* str.lower() on the words of the vocabularies.
Lower(w) ==
    CASE w = "Step" -> "step"
      [] w = "Create" -> "create"
      [] OTHER -> w
LowerWords(text) == [i \in 1..Len(text.words) |-> Lower(text.words[i])]

\* str.strip()
Strip(text) == Text(FALSE, text.words, FALSE)

RECURSIVE SplitLength(_, _)
\* len(user_input.split()) for the first n words of the list
SplitLength(words, n) ==
    IF n = 0 THEN 0
    ELSE SplitLength(words, n - 1) + (IF words[n] = LongPhrase THEN LongPhraseWords ELSE 1)

\* The literals of the rule table that are substrings of a lower-case word of
\* the vocabularies ('keyword in user_input_lower' and re.search both look
\* for substrings).
Substrings(w) ==
    CASE w = "create" -> {"create"}
      [] w = "files" -> {"file"}
      [] w = "test" -> {"test"}
      [] w = "analyze" -> {"analyze"}
      [] w = "before" -> {"for"}
      [] OTHER -> {}

\* ------------------------------------------------ TaskAnalysisService
\* TaskPriority.LOW
LOW == 1

\* _initialize_analysis_rules: a pattern is a set of alternatives, <<a>> for
\* the literal a and <<a, b>> for a.*b; durations are base_duration *
\* complexity_factor in hundredths.
analysis_rules ==
    <<
    [pattern |-> {<<"screenshot">>, <<"capture">>, <<"analyze", "screen">>, <<"what", "see">>,
                  <<"visual">>, <<"image">>},
     task_type |-> "vision_analysis", priority |-> HIGH,
     keywords |-> {"screenshot", "analyze", "visual", "see", "screen", "image"},
     estimated_duration |-> 160],
    [pattern |-> {<<"write", "code">>, <<"create", "function">>, <<"implement">>,
                  <<"generate", "script">>},
     task_type |-> "code_generation", priority |-> HIGH,
     keywords |-> {"write", "create", "implement", "generate", "code", "function"},
     estimated_duration |-> 600],
    [pattern |-> {<<"create", "file">>, <<"edit", "file">>, <<"delete", "file">>,
                  <<"move", "file">>, <<"copy", "file">>},
     task_type |-> "file_operations", priority |-> MEDIUM,
     keywords |-> {"create", "edit", "delete", "move", "copy", "file"},
     estimated_duration |-> 60],
    [pattern |-> {<<"run", "command">>, <<"execute">>, <<"terminal">>, <<"bash">>, <<"shell">>,
                  <<"install">>},
     task_type |-> "terminal_commands", priority |-> MEDIUM,
     keywords |-> {"run", "execute", "terminal", "command", "bash", "shell"},
     estimated_duration |-> 210],
    [pattern |-> {<<"open", "browser">>, <<"navigate", "to">>, <<"click", "button">>,
                  <<"fill", "form">>, <<"web">>},
     task_type |-> "browser_automation", priority |-> MEDIUM,
     keywords |-> {"browser", "navigate", "click", "fill", "web", "url"},
     estimated_duration |-> 400],
    [pattern |-> {<<"plan">>, <<"strategy">>, <<"how", "to">>, <<"steps", "for">>,
                  <<"break", "down">>},
     task_type |-> "planning", priority |-> HIGH,
     keywords |-> {"plan", "strategy", "how", "steps", "break", "analyze"},
     estimated_duration |-> 450],
    [pattern |-> {<<"test">>, <<"verify">>, <<"check">>, <<"validate">>, <<"debug">>,
                  <<"error">>},
     task_type |-> "testing", priority |-> HIGH,
     keywords |-> {"test", "verify", "check", "validate", "debug", "error"},
     estimated_duration |-> 660],
    [pattern |-> {<<"optimize">>, <<"improve">>, <<"performance">>, <<"faster">>,
                  <<"efficient">>},
     task_type |-> "optimization", priority |-> LOW,
     keywords |-> {"optimize", "improve", "performance", "faster", "efficient"},
     estimated_duration |-> 1440]
    >>

\* The scores of lines 114, 119 and 123 in half points, the word count of
\* line 122 and the estimated_duration of the fallback (line 144).
PatternScore == 6
KeywordScore == 1
LengthScore == 1
LengthThreshold == 10
FallbackDuration == 300

\* The literals that are substrings of the lower-case text ws.
Found(ws) == UNION {Substrings(ws[i]) : i \in 1..Len(ws)}

\* re.search of one alternative in the lower-case text ws, found the
\* literals that lie in it: the literal lies in a word, and the literal after
\* .* in a later word (no word of the vocabularies holds both literals of an
\* alternative).
ReSearch(alternative, ws, found) ==
    IF Len(alternative) = 1
    THEN alternative[1] \in found
    ELSE /\ alternative[1] \in found
         /\ alternative[2] \in found
         /\ \E i \in 1..Len(ws) :
                /\ alternative[1] \in Substrings(ws[i])
                /\ \E j \in (i + 1)..Len(ws) : alternative[2] \in Substrings(ws[j])

\* Lines 110-123: the score of one rule; user_input_lower is the text of
\* line 104, found the literals that lie in it, and long_input the test of
\* line 122.
RuleScore(rule, user_input_lower, found, long_input) ==
    LET keyword_matches == Cardinality(rule.keywords \cap found)
    IN  (IF \E alternative \in rule.pattern : ReSearch(alternative, user_input_lower, found)
         THEN PatternScore ELSE 0)
        + keyword_matches * KeywordScore
        + (IF long_input THEN LengthScore ELSE 0)

\* The comparison of line 125 with >= : a fault the tie-break has to detect.
ScoreBeatsOrTies(score, best_score) == score >= best_score
\* Line 125
ScoreBeats(score, best_score) == score > best_score

RECURSIVE BestMatch(_, _, _, _, _, _, _)
\* The loop of lines 109-127 over the table rules from rule i on; best_match
\* 0 is None.
BestMatch(rules, i, user_input_lower, found, long_input, best_match, best_score) ==
    IF i > Len(rules) THEN best_match
    ELSE LET score == RuleScore(rules[i], user_input_lower, found, long_input)
         IN  IF ScoreBeats(score, best_score)
             THEN BestMatch(rules, i + 1, user_input_lower, found, long_input, i, score)
             ELSE BestMatch(rules, i + 1, user_input_lower, found, long_input,
                            best_match, best_score)

\* analyze_task (lines 100-145) of a service whose self.analysis_rules is rules
AnalyzeTaskWith(rules, text) ==
    LET user_input_lower == LowerWords(text)
        found == Found(user_input_lower)
        long_input == SplitLength(text.words, Len(text.words)) > LengthThreshold
        best_match == BestMatch(rules, 1, user_input_lower, found, long_input, 0, 0)
    IN  IF best_match # 0
        THEN [task_type |-> rules[best_match].task_type,
              priority |-> rules[best_match].priority,
              estimated_duration |-> rules[best_match].estimated_duration]
        ELSE [task_type |-> "planning", priority |-> MEDIUM,
              estimated_duration |-> FallbackDuration]

\* analyze_task of a service as __init__ built it (line 29)
AnalyzeTask(text) == AnalyzeTaskWith(analysis_rules, text)

\* The requests analyze_task is called with.
AnalysisVocabulary == {"do", LongPhrase, "Create", "files", "test", "analyze"}

\* A fresh orchestrator, which the services do not touch.
NoOrchestrator == Constructed /\ tasks = <<>> /\ executor_outcomes = ExecutorOutcomes

AnalysisInit ==
    /\ NoOrchestrator
    /\ ExtensionsIdle
    /\ \E words \in WordLists(AnalysisVocabulary) : user_request = Text(FALSE, words, FALSE)
    /\ subtask_descriptions = <<>>
    /\ analysis = NoAnalysis
    /\ built_tasks = <<>>
    /\ parallel_groups = <<>>
    /\ complexity_score = 0
    /\ service_pc = "request"

\* analyze_task(user_request) is called.
AnalyzeTaskCall ==
    /\ service_pc = "request"
    /\ analysis' = AnalyzeTask(user_request)
    /\ service_pc' = "analyzed"
    /\ UNCHANGED <<extensionVars, eventLoopVars, selectVars, planVars, taskVars, agentVars, localVars, pc,
                   report, exit_reason, entry_status, executor_outcome, executor_outcomes,
                   user_request, subtask_descriptions, built_tasks, parallel_groups,
                   complexity_score>>

AnalysisNext == AnalyzeTaskCall

AnalysisSpec == AnalysisInit /\ [][AnalysisNext]_vars

\* ------------------------------------------- repeated analyze_task calls
MaxCalls == 3

\* The requests of the repeated calls: one drawn over this vocabulary, and
\* one other request.
ClassifierVocabulary == {"Create", "files", "test", LongPhrase}
OtherRequest == Text(FALSE, <<"test", "files">>, FALSE)

\* A TaskAnalysisService right after __init__ (lines 28-29).
ClassifierInit ==
    /\ NoOrchestrator
    /\ \E words \in WordLists(ClassifierVocabulary) : user_request = Text(FALSE, words, FALSE)
    /\ subtask_descriptions = <<>>
    /\ analysis = NoAnalysis
    /\ built_tasks = <<>>
    /\ parallel_groups = <<>>
    /\ complexity_score = 0
    /\ service_pc = "service"
    /\ self_analysis_rules = analysis_rules
    /\ analysis_calls = <<>>
    /\ IdleBesidesClassifier

\* analyze_task that takes the first rule out of the table: a fault the
\* repeated calls have to detect.
AnalyzeTaskOnServiceDropsRule ==
    /\ service_pc = "service"
    /\ Len(analysis_calls) < MaxCalls
    /\ \E text \in {user_request, OtherRequest} :
           analysis_calls' = Append(analysis_calls,
                                    [text |-> text,
                                     value |-> AnalyzeTaskWith(self_analysis_rules, text)])
    /\ self_analysis_rules' = Tail(self_analysis_rules)
    /\ UNCHANGED <<eventLoopVars, selectVars, planVars, taskVars, agentVars, localVars, pc,
                   report, exit_reason, entry_status, executor_outcome, executor_outcomes,
                   serviceVars, besidesClassifier>>
\* analyze_task(text) is called on the service (lines 100-145): it reads
\* self.analysis_rules and assigns locals only.
AnalyzeTaskOnService ==
    /\ service_pc = "service"
    /\ Len(analysis_calls) < MaxCalls
    /\ \E text \in {user_request, OtherRequest} :
           analysis_calls' = Append(analysis_calls,
                                    [text |-> text,
                                     value |-> AnalyzeTaskWith(self_analysis_rules, text)])
    /\ UNCHANGED <<eventLoopVars, selectVars, planVars, taskVars, agentVars, localVars, pc,
                   report, exit_reason, entry_status, executor_outcome, executor_outcomes,
                   serviceVars, besidesClassifier, self_analysis_rules>>

ClassifierNext == AnalyzeTaskOnService

ClassifierSpec == ClassifierInit /\ [][ClassifierNext]_vars

\* ------------------------------------------------- the issuing of ids
MaxIssued == 3

\* The values of uuid.uuid4().hex[:8], eight hexadecimal digits, as numbers in
\* the order of the strings.
HexValues == 1..MaxIssued

\* A planning service and a TaskRouter right after construction
\* (task_router.py line 30: self.task_counter = 0).
IdentityInit ==
    /\ NoOrchestrator
    /\ ServiceIdle
    /\ IdentityIdle
    /\ IdleBesidesIdentity

\* TaskId.generate() (value_objects.py lines 40-43): a random value.
TaskIdGenerate ==
    /\ Len(generated_ids) < MaxIssued
    /\ \E value \in HexValues : generated_ids' = Append(generated_ids, value)
    /\ UNCHANGED <<eventLoopVars, selectVars, planVars, taskVars, agentVars, localVars, pc,
                   report, exit_reason, entry_status, executor_outcome, executor_outcomes,
                   serviceVars, besidesIdentity, task_counter, router_ids>>

\* TaskRouter._generate_task_id() (task_router.py lines 214-217)
GenerateTaskId ==
    /\ task_counter < MaxIssued
    /\ task_counter' = task_counter + 1
    /\ router_ids' = Append(router_ids, task_counter')
    /\ UNCHANGED <<eventLoopVars, selectVars, planVars, taskVars, agentVars, localVars, pc,
                   report, exit_reason, entry_status, executor_outcome, executor_outcomes,
                   serviceVars, besidesIdentity, generated_ids>>

IdentityNext == TaskIdGenerate \/ GenerateTaskId

IdentitySpec == IdentityInit /\ [][IdentityNext]_vars

\* ----------------------------------------------------- the decomposer
\* complexity_indicators (lines 149-152): the markers with a blank on either
\* side, " and then ", and " step 1" and " step 2" with a blank in front.
BlankOnBothSides == {"after", "before", "first", "next", "finally", "then", "afterwards"}
\* The numerals of the vocabularies.
Digits == {"1"}

\* is_complex_task (lines 147-155)
IsComplexTask(text) ==
    LET ws == LowerWords(text)
        n == Len(ws)
        BlankBefore(i) == i > 1 \/ text.lead
        BlankAfter(i) == i < n \/ text.trail
    IN  \E i \in 1..n :
            \/ ws[i] \in BlankOnBothSides /\ BlankBefore(i) /\ BlankAfter(i)
            \/ /\ ws[i] = "and" /\ i < n /\ ws[i + 1] = "then"
               /\ BlankBefore(i) /\ BlankAfter(i + 1)
            \/ ws[i] = "step" /\ i < n /\ ws[i + 1] \in {"1", "2"} /\ BlankBefore(i)

\* The separators of lines 163-166 in their order; "step" is \bstep \d+.
separators == <<"and then", "after", "next", "then", "step", "finally", "afterwards">>

\* The number of words the separator matches at word i of the part (0: no
\* match); re.IGNORECASE compares the lower-case words.
MatchLength(separator, part, i) ==
    LET w == Lower(part[i])
        next == IF i < Len(part) THEN Lower(part[i + 1]) ELSE ""
    IN  IF separator = "and then" THEN (IF w = "and" /\ next = "then" THEN 2 ELSE 0)
        ELSE IF separator = "step" THEN (IF w = "step" /\ next \in Digits THEN 2 ELSE 0)
        ELSE IF w = separator THEN 1 ELSE 0

RECURSIVE ReSplit(_, _, _, _, _)
\* re.split(separator, part) from word i on: piece is the piece under way,
\* pieces the finished ones.  A piece without words is '' or blank.
ReSplit(separator, part, i, piece, pieces) ==
    IF i > Len(part) THEN Append(pieces, piece)
    ELSE LET m == MatchLength(separator, part, i)
         IN  IF m > 0
             THEN ReSplit(separator, part, i + m, <<>>, Append(pieces, piece))
             ELSE ReSplit(separator, part, i + 1, Append(piece, part[i]), pieces)

RECURSIVE SplitParts(_, _, _)
\* Lines 170-173 for one separator: new_parts of the first n parts.
SplitParts(separator, parts, n) ==
    IF n = 0 THEN <<>>
    ELSE SplitParts(separator, parts, n - 1) \o ReSplit(separator, parts[n], 1, <<>>, <<>>)

RECURSIVE SplitOnSeparators(_, _)
\* Lines 168-173: the parts after the first k separators.
SplitOnSeparators(text, k) ==
    IF k = 0 THEN <<text.words>>
    ELSE LET parts == SplitOnSeparators(text, k - 1)
         IN  SplitParts(separators[k], parts, Len(parts))

\* Line 176: the parts that are not blank, stripped.
CleanAndFilter(parts) ==
    LET kept == SelectSeq(parts, LAMBDA part : part # <<>>)
    IN  [i \in 1..Len(kept) |-> Text(FALSE, kept[i], FALSE)]

\* extract_subtasks without line 177: a fault the fallback has to detect.
ExtractSubtasksNoFallback(text) ==
    IF ~IsComplexTask(text) THEN <<text>>
    ELSE CleanAndFilter(SplitOnSeparators(text, Len(separators)))
\* extract_subtasks (lines 157-177)
ExtractSubtasks(text) ==
    IF ~IsComplexTask(text) THEN <<text>>
    ELSE LET subtasks == CleanAndFilter(SplitOnSeparators(text, Len(separators)))
         IN  IF Len(subtasks) > 1 THEN subtasks ELSE <<text>>

\* ------------------------------------------- ExecutionPlanningService
\* The largest number a list of ids holds.
Largest(ids) == IF ids = <<>> THEN 0 ELSE CHOOSE m \in Range(ids) : \A k \in Range(ids) : k <= m

RECURSIVE GeneratedIds(_)
\* The lists of n ids TaskId.generate() can return: eight random hex digits
\* each, so any two of them are different or, rarely, equal.  Ids are
\* numbered in the order of their first appearance.
GeneratedIds(n) ==
    IF n = 0 THEN {<<>>}
    ELSE {Append(ids, k) : ids \in GeneratedIds(n - 1), k \in 1..NumTasks} \cap
         {ids \in [1..n -> 1..NumTasks] : ids[n] <= Largest(SubSeq(ids, 1, n - 1)) + 1}

\* The dependency list of task i with every list left empty: a fault the
\* chain of a decomposed request has to detect.
SequentialDependenciesNone(built, i) == <<>>
\* Lines 73-76: the dependency list of task i, built the tasks before it.
SequentialDependencies(built, i) == IF i > 1 THEN <<built[i - 1].id>> ELSE <<>>

\* Lines 71-86: the task entity of one description.
NewTaskEntity(id, description, analyzed, dependency_list) ==
    [id |-> id,
     description |-> description,
     task_type |-> analyzed.task_type,
     priority |-> analyzed.priority,
     estimated_duration |-> analyzed.estimated_duration,
     dependencies |-> dependency_list]

RECURSIVE CreateTaskEntities(_, _, _)
\* _create_task_entities (lines 62-89) for the first n descriptions; ids[i]
\* is the id generated for task i.
CreateTaskEntities(task_descriptions, ids, n) ==
    IF n = 0 THEN <<>>
    ELSE LET built == CreateTaskEntities(task_descriptions, ids, n - 1)
         IN  Append(built, NewTaskEntity(ids[n], Strip(task_descriptions[n]),
                                         AnalyzeTask(task_descriptions[n]),
                                         SequentialDependencies(built, n)))

\* type_complexity (lines 101-110) in tenths; 10 is the default of .get
type_complexity(kind) ==
    CASE kind = "vision_analysis" -> 8
      [] kind = "code_generation" -> 12
      [] kind = "file_operations" -> 6
      [] kind = "terminal_commands" -> 7
      [] kind = "browser_automation" -> 10
      [] kind = "planning" -> 15
      [] kind = "testing" -> 11
      [] kind = "optimization" -> 18
      [] OTHER -> 10

RECURSIVE SumOver(_, _, _)
\* sum(term(task) for task in tasks) over the first n tasks
SumOver(term(_), task_list, n) ==
    IF n = 0 THEN 0 ELSE SumOver(term, task_list, n - 1) + term(task_list[n])

\* _calculate_complexity_score (lines 91-115) in thousandths: 0.3 a task, 0.2
\* a dependency entry, 0.1 a second of estimated duration (durations are in
\* hundredths of a second) and 0.1 of the weight of the kind.
CalculateComplexityScore(task_list) ==
    IF task_list = <<>> THEN 0
    ELSE LET n == Len(task_list)
             base_score == n * 300
             dependency_score == SumOver(LAMBDA task : Len(task.dependencies), task_list, n) * 200
             duration_score == SumOver(LAMBDA task : task.estimated_duration, task_list, n)
             type_score == SumOver(LAMBDA task : type_complexity(task.task_type),
                                   task_list, n) * 10
         IN  base_score + dependency_score + duration_score + type_score

RECURSIVE IndependentTasks(_, _)
\* Lines 122-125: the loop over the first n tasks.
IndependentTasks(task_list, n) ==
    IF n = 0 THEN <<>>
    ELSE IF task_list[n].dependencies = <<>>
         THEN Append(IndependentTasks(task_list, n - 1), task_list[n].id)
         ELSE IndependentTasks(task_list, n - 1)

\* _identify_parallel_groups with the test of line 127 as >= 1: a fault the
\* grouping has to detect.
IdentifyParallelGroupsOfOne(task_list) ==
    LET independent_tasks == IndependentTasks(task_list, Len(task_list))
    IN  IF Len(independent_tasks) >= 1 THEN <<independent_tasks>> ELSE <<>>
\* _identify_parallel_groups (lines 117-130)
IdentifyParallelGroups(task_list) ==
    LET independent_tasks == IndependentTasks(task_list, Len(task_list))
    IN  IF Len(independent_tasks) > 1 THEN <<independent_tasks>> ELSE <<>>

\* The requests the planning service is called with.
PlanningVocabulary == {"do", "and", "then", "before", "Step", "1"}

PlanningInit ==
    /\ NoOrchestrator
    /\ ExtensionsIdle
    /\ \E words \in WordLists(PlanningVocabulary), lead, trail \in BOOLEAN :
           /\ words = <<>> => ~trail
           /\ user_request = Text(lead, words, trail)
    /\ subtask_descriptions = <<>>
    /\ analysis = NoAnalysis
    /\ built_tasks = <<>>
    /\ parallel_groups = <<>>
    /\ complexity_score = 0
    /\ service_pc = "request"

\* extract_subtasks(user_request) is called.
ExtractSubtasksCall ==
    /\ service_pc = "request"
    /\ subtask_descriptions' = ExtractSubtasks(user_request)
    /\ service_pc' = "decomposed"
    /\ UNCHANGED <<extensionVars, eventLoopVars, selectVars, planVars, taskVars, agentVars, localVars, pc,
                   report, exit_reason, entry_status, executor_outcome, executor_outcomes,
                   user_request, analysis, built_tasks, parallel_groups, complexity_score>>

\* create_execution_plan(user_request) is called (lines 23-60); ids are the
\* ids TaskId.generate() returns for the tasks.
CreateExecutionPlanCall ==
    /\ service_pc = "request"
    /\ subtask_descriptions' = IF IsComplexTask(user_request)
                               THEN ExtractSubtasks(user_request)
                               ELSE subtask_descriptions
    /\ \E ids \in GeneratedIds(IF IsComplexTask(user_request)
                                THEN Len(subtask_descriptions') ELSE 1) :
           built_tasks' =
               IF IsComplexTask(user_request)
               THEN CreateTaskEntities(subtask_descriptions', ids, Len(subtask_descriptions'))
               ELSE <<NewTaskEntity(ids[1], user_request, AnalyzeTask(user_request), <<>>)>>
    /\ complexity_score' = CalculateComplexityScore(built_tasks')
    /\ parallel_groups' = IdentifyParallelGroups(built_tasks')
    /\ service_pc' = "planned"
    /\ UNCHANGED <<extensionVars, eventLoopVars, selectVars, planVars, taskVars, agentVars, localVars, pc,
                   report, exit_reason, entry_status, executor_outcome, executor_outcomes,
                   user_request, analysis>>

PlanningNext == ExtractSubtasksCall \/ CreateExecutionPlanCall

PlanningSpec == PlanningInit /\ [][PlanningNext]_vars

\* ------------------------------------------------ grouping of task lists
\* The dependency lists of a task of a hand-built list: none, or one id.
DependencyLists == {<<>>} \cup {<<d>> : d \in 1..NumTasks}

\* What analyze_task returned for a task of a hand-built list: the default, or
\* the testing rule.
AnalysisChoices == {AnalyzeTask(Text(FALSE, <<"do">>, FALSE)),
                    AnalyzeTask(Text(FALSE, <<"test">>, FALSE))}

GroupingInit ==
    /\ NoOrchestrator
    /\ ExtensionsIdle
    /\ user_request = NoText
    /\ subtask_descriptions = <<>>
    /\ analysis = NoAnalysis
    /\ \E n \in 0..NumTasks : \E ids \in GeneratedIds(n) :
           \E deps \in [1..n -> DependencyLists], analyzed \in [1..n -> AnalysisChoices] :
               built_tasks = [i \in 1..n |->
                                 NewTaskEntity(ids[i], NoText, analyzed[i], deps[i])]
    /\ parallel_groups = <<>>
    /\ complexity_score = 0
    /\ service_pc = "tasks"

\* _identify_parallel_groups(tasks) is called.
IdentifyParallelGroupsCall ==
    /\ service_pc = "tasks"
    /\ parallel_groups' = IdentifyParallelGroups(built_tasks)
    /\ service_pc' = "grouped"
    /\ UNCHANGED <<extensionVars, eventLoopVars, selectVars, planVars, taskVars, agentVars, localVars, pc,
                   report, exit_reason, entry_status, executor_outcome, executor_outcomes,
                   user_request, subtask_descriptions, analysis, built_tasks, complexity_score>>

\* _calculate_complexity_score(tasks) is called.
CalculateComplexityScoreCall ==
    /\ service_pc = "tasks"
    /\ complexity_score' = CalculateComplexityScore(built_tasks)
    /\ service_pc' = "scored"
    /\ UNCHANGED <<extensionVars, eventLoopVars, selectVars, planVars, taskVars, agentVars,
                   localVars, pc, report, exit_reason, entry_status, executor_outcome,
                   executor_outcomes, user_request, subtask_descriptions, analysis,
                   built_tasks, parallel_groups>>

GroupingNext == IdentifyParallelGroupsCall \/ CalculateComplexityScoreCall

GroupingSpec == GroupingInit /\ [][GroupingNext]_vars

\* C26: when the request was decomposed into two or more fragments, the plan
\* has one task per fragment in the order of the fragments, the first task
\* depends on nothing, every later task depends on exactly the task before
\* it, and the plan has no parallel group.
C26_DecomposedPlanIsChain ==
    (service_pc = "planned" /\ Len(subtask_descriptions) >= 2) =>
        /\ Len(built_tasks) = Len(subtask_descriptions)
        /\ \A i \in 1..Len(built_tasks) :
               built_tasks[i].description = subtask_descriptions[i]
        /\ built_tasks[1].dependencies = <<>>
        /\ \A i \in 2..Len(built_tasks) :
               built_tasks[i].dependencies = <<built_tasks[i - 1].id>>
        /\ parallel_groups = <<>>

\* C26 witness: a plan of three tasks with three different ids was built from
\* three fragments, and the third task depends on the second.
C26_Witness ==
    /\ service_pc = "planned"
    /\ Len(subtask_descriptions) = 3
    /\ Len(built_tasks) = 3
    /\ Cardinality({built_tasks[i].id : i \in 1..3}) = 3
    /\ built_tasks[3].dependencies = <<built_tasks[2].id>>

\* C27: the parallel groups of a task list are none when fewer than two
\* tasks have an empty dependency list, and otherwise the one group of the
\* ids of exactly the tasks with an empty dependency list, in plan order.
C27_ParallelGroupsAreIndependentTasks ==
    service_pc = "grouped" =>
        LET independent == SelectSeq(built_tasks, LAMBDA t : t.dependencies = <<>>)
        IN  IF Len(independent) < 2
            THEN parallel_groups = <<>>
            ELSE /\ Len(parallel_groups) = 1
                 /\ Len(parallel_groups[1]) = Len(independent)
                 /\ \A i \in 1..Len(independent) : parallel_groups[1][i] = independent[i].id

\* C27 witness: a list of three tasks whose second task has a dependency was
\* grouped, and the group holds the different ids of the first and the third.
C27_Witness ==
    /\ service_pc = "grouped"
    /\ Len(built_tasks) = 3
    /\ built_tasks[2].dependencies # <<>>
    /\ built_tasks[1].id # built_tasks[3].id
    /\ parallel_groups = <<(<<built_tasks[1].id, built_tasks[3].id>>)>>

\* The text is the empty string.
IsEmptyText(text) == text.words = <<>> /\ ~text.lead /\ ~text.trail
\* The text is not empty and has no blank in front or at the end.
IsTrimmedFragment(text) == text.words # <<>> /\ ~text.lead /\ ~text.trail

\* C28: the decomposer returns the text alone when the text is not detected
\* as compound, and at least two fragments, each non-empty and trimmed, when
\* it is detected as compound.
C28_DecomposerRoundTrip ==
    service_pc = "decomposed" =>
        IF ~IsComplexTask(user_request)
        THEN subtask_descriptions = <<user_request>>
        ELSE /\ Len(subtask_descriptions) >= 2
             /\ \A i \in 1..Len(subtask_descriptions) :
                    IsTrimmedFragment(subtask_descriptions[i])

\* The parts that splitting leaves of a text detected as compound.
NonEmptyParts(text) == CleanAndFilter(SplitOnSeparators(text, Len(separators)))

\* C29: for a non-empty request the decomposer returns at least one fragment
\* and none that is empty, a compound request that splitting leaves at most
\* one part of comes back as the original text alone, and the plan built for
\* the request has at least one task.
C29_FallbackToOriginal ==
    ~IsEmptyText(user_request) =>
        /\ service_pc = "decomposed" =>
               /\ Len(subtask_descriptions) >= 1
               /\ \A i \in 1..Len(subtask_descriptions) :
                      ~IsEmptyText(subtask_descriptions[i])
               /\ (IsComplexTask(user_request) /\ Len(NonEmptyParts(user_request)) <= 1) =>
                      subtask_descriptions = <<user_request>>
        /\ service_pc = "planned" => Len(built_tasks) >= 1

\* C29 witness: a request detected as compound, of which splitting leaves one
\* part, was decomposed into the original text alone.
C29_Witness ==
    /\ service_pc = "decomposed"
    /\ IsComplexTask(user_request)
    /\ Len(NonEmptyParts(user_request)) = 1
    /\ NonEmptyParts(user_request) # <<user_request>>
    /\ subtask_descriptions = <<user_request>>

\* The score the rule table is read with: 3 for a pattern match, 0.5 for
\* every matched keyword, 0.5 for a text of more than 10 words (half points).
SpecifiedRuleScore(r, text) ==
    LET ws == LowerWords(text)
        rule == analysis_rules[r]
    IN  (IF \E alternative \in rule.pattern : ReSearch(alternative, ws, Found(ws))
         THEN 6 ELSE 0)
        + Cardinality({k \in rule.keywords : k \in Found(ws)})
        + (IF SplitLength(text.words, Len(text.words)) > 10 THEN 1 ELSE 0)

RECURSIVE SpecifiedScores(_, _)
\* The list of the scores of the first n rules.
SpecifiedScores(n, text) ==
    IF n = 0 THEN <<>>
    ELSE Append(SpecifiedScores(n - 1, text), SpecifiedRuleScore(n, text))

\* In the list of scores sc, rule r has the highest score and no earlier rule
\* has it.
FirstOfHighest(r, sc) ==
    /\ \A q \in 1..Len(sc) : sc[q] <= sc[r]
    /\ \A q \in 1..(r - 1) : sc[q] < sc[r]

\* C30: analyze_task returns the kind and priority of the first rule among
\* those with the highest score, and planning with medium priority and the
\* fallback duration when no rule scores above zero.
C30_HighestScoreFirstRule ==
    service_pc = "analyzed" =>
        LET sc == SpecifiedScores(Len(analysis_rules), user_request)
        IN  IF \E r \in 1..Len(sc) : sc[r] > 0
            THEN \E r \in 1..Len(sc) :
                     /\ FirstOfHighest(r, sc)
                     /\ analysis.task_type = analysis_rules[r].task_type
                     /\ analysis.priority = analysis_rules[r].priority
            ELSE analysis = [task_type |-> "planning", priority |-> MEDIUM,
                             estimated_duration |-> 300]

\* C30 witness: a text of more than ten words for which two rules share the
\* highest score has been analyzed, and the earlier rule was returned.
C30_Witness ==
    /\ service_pc = "analyzed"
    /\ SplitLength(user_request.words, Len(user_request.words)) > 10
    /\ LET sc == SpecifiedScores(Len(analysis_rules), user_request)
       IN  \E r, q \in 1..Len(sc) :
               /\ r < q
               /\ FirstOfHighest(r, sc)
               /\ sc[q] = sc[r]
               /\ sc[r] > 1
               /\ analysis.task_type = analysis_rules[r].task_type

RECURSIVE SpecifiedComplexity(_, _)
\* The score the plan is specified to get for its first n tasks, in
\* thousandths: 0.2 a task, 0.1 a dependency entry, 0.05 a second of
\* estimated duration and 0.1 of the weight of the kind.
SpecifiedComplexity(task_list, n) ==
    IF n = 0 THEN 0
    ELSE SpecifiedComplexity(task_list, n - 1)
         + 200
         + 100 * Len(task_list[n].dependencies)
         + task_list[n].estimated_duration \div 2
         + 10 * type_complexity(task_list[n].task_type)

\* C32: the complexity score of a task list is 0.2 a task + 0.1 a dependency
\* entry + 0.05 x the estimated durations + 0.1 x the weights of the kinds,
\* and 0 for the empty list.
C32_ComplexityScoreFormula ==
    service_pc = "scored" =>
        complexity_score = SpecifiedComplexity(built_tasks, Len(built_tasks))

\* Every id of the list is greater than all ids before it.
StrictlyIncreasing(ids) == \A i, j \in 1..Len(ids) : i < j => ids[i] < ids[j]

\* C33: the task ids issued by a builder are unique and increasing: every
\* newly issued id is greater than all ids issued before.
C33_IdsUniqueAndIncreasing ==
    /\ StrictlyIncreasing(generated_ids)
    /\ StrictlyIncreasing(router_ids)

\* C34: a returned report agrees with the task states: an id is in
\* completed_tasks exactly when the task is Completed and in failed_tasks
\* exactly when it is Failed, and no id is listed twice or in both lists.
C34_ReportAgreesWithTasks ==
    report.kind = "report" =>
        /\ \A t \in PlanTasks :
               /\ t \in Range(report.completed_tasks) <=> status[t] = COMPLETED
               /\ t \in Range(report.failed_tasks) <=> status[t] = FAILED
        /\ Cardinality(Range(report.completed_tasks)) = Len(report.completed_tasks)
        /\ Cardinality(Range(report.failed_tasks)) = Len(report.failed_tasks)
        /\ Range(report.completed_tasks) \cap Range(report.failed_tasks) = {}

\* A call of execute_plan on a plan that is not pending raises, holds no lock
\* afterwards, and leaves the plan, its tasks and the agents as they were.
RejectsPlanNotPending ==
    (ExecutePlanCall /\ plan_status # "pending") =>
        /\ pc' = "raised"
        /\ ~OtherCallHoldsLock'
        /\ UNCHANGED <<planVars, taskVars, agentVars>>

\* C35: execute_plan called on a plan whose status is not 'pending' is
\* rejected with an error, changes no task, agent or plan field, and leaves
\* the execution lock free.
C35_NotPendingPlanRejected == [][RejectsPlanNotPending]_vars

\* C35 witness: a call on a plan that an earlier call had completed, with
\* failed tasks, has raised.
C35_Witness ==
    /\ pc = "raised"
    /\ entry_status = "completed"
    /\ plan_status = "completed"
    /\ \E t \in PlanTasks : status[t] = FAILED

\* ------------------------------------ _has_circular_dependencies on a list
\* The task lists handed to _has_circular_dependencies: tasks with different
\* ids, in any order.
TaskLists ==
    {ts \in UNION {[1..n -> Tasks] : n \in 0..NumTasks} :
        \A i, j \in DOMAIN ts : i # j => ts[i] # ts[j]}

\* The dependencies of the task entities: any ids, the task's own id and ids
\* of tasks that are not in the list included.
GivenGraphs ==
    {[t \in Tasks |-> {d \in Tasks : <<t, d>> \in E}] :
        E \in {F \in SUBSET (Tasks \X Tasks) : Cardinality(F) <= MaxDependencies + 2}}

\* _has_circular_dependencies with every task entity in task_map, given or
\* not: a fault the restriction to the given tasks has to detect.
HasCircularDependenciesOfEveryEntity(ts) == CycleFrom(ts, Tasks, {})

\* _has_circular_dependencies(tasks) for the list ts: task_map (line 347) has
\* the ids of the given tasks as its keys.
HasCircularDependenciesOf(ts) == CycleFrom(ts, Range(ts), {})

CycleInit ==
    /\ tasks = <<>>
    /\ task_type \in TaskTypeChoices(0)
    /\ dependencies \in GivenGraphs
    /\ FreshEntities
    /\ executor_outcomes = ExecutorOutcomes
    /\ ServiceIdle
    /\ IdleBesidesCycle
    /\ given_tasks \in TaskLists
    /\ cycle_pc = "call"
    /\ cycle_result = FALSE

\* The call of _has_circular_dependencies(given_tasks) and its return.
HasCircularDependenciesCall ==
    /\ cycle_pc = "call"
    /\ cycle_result' = HasCircularDependenciesOf(given_tasks)
    /\ cycle_pc' = "returned"
    /\ UNCHANGED <<eventLoopVars, selectVars, planVars, taskVars, agentVars, localVars, pc,
                   report, exit_reason, entry_status, executor_outcome, executor_outcomes,
                   serviceVars, besidesCycle, given_tasks>>

CycleNext == HasCircularDependenciesCall

CycleSpec == CycleInit /\ [][CycleNext]_vars

\* ------------------------------------------- PlannerAgent._execute_plan
\* The plans handed to _execute_plan: n tasks (agents/base_agent.py, Task) in
\* plan order, the i-th with id i, each with its type and its dependencies.
\* The dependencies are any ids, the task's own, those of later tasks and
\* those of no task of the plan included; at most MaxDependencies in all.
PlannerPlans ==
    UNION {{[i \in 1..n |-> [id |-> i, type |-> ty[i],
                             dependencies |-> {d \in Tasks : <<i, d>> \in E}]] :
               ty \in TaskTypeChoices(n),
               E \in {F \in SUBSET ((1..n) \X Tasks) : Cardinality(F) <= MaxDependencies}} :
           n \in 0..NumTasks}

\* What an agent's execute_task does with a task: it returns an AgentResult
\* with success True or False, or it raises.
ExecuteTaskOutcomes == {"success", "failure", "raise"}
ExecuteTaskErrorMsg == "execute_task raised"
\* A key that a returned dict does not have.
Absent == Ratio(0, 0)

\* The capability lists the agents are registered with: an agent for file
\* operations only, or one for every kind of task.
PlannerCapabilityChoices == {{"file_operations"}, TaskTypes}

\* _dependencies_satisfied that looks at nothing: a fault the guard of the
\* hand-over has to detect.
DependenciesSatisfiedAlways(task, completed) == TRUE

\* _dependencies_satisfied (planner_agent.py lines 230-232)
DependenciesSatisfied(task, completed) ==
    \A dep_id \in task.dependencies : dep_id \in Range(completed)

\* can_handle_task of a registered agent: abstract in BaseAgent; the agents
\* answer it from their capability list.
PlannerCanHandleTask(a, task) == task.type \in available_agents[a]

\* _calculate_agent_score (lines 211-228) for an agent without metrics and
\* with an empty queue: 0.5 * 50 - 0 * 5, and 30 for a capability match.
PlannerAgentScore(a, task) == 25 + (IF task.type \in available_agents[a] THEN 30 ELSE 0)

\* _select_agent_for_task (lines 194-209): the agents that can handle the
\* task in registration order; the stable descending sort keeps the first of
\* those with the highest score in front.  NoAgent stands for None.
SelectAgentForTask(task) ==
    LET suitable == {a \in DOMAIN available_agents : PlannerCanHandleTask(a, task)}
        best == {a \in suitable :
                    \A b \in suitable : PlannerAgentScore(b, task) <= PlannerAgentScore(a, task)}
    IN  IF suitable = {} THEN NoAgent
        ELSE CHOOSE a \in best : \A b \in best : a <= b

PlannerInit ==
    /\ NoOrchestrator
    /\ ServiceIdle
    /\ IdleBesidesPlanner
    /\ plan_tasks \in PlannerPlans
    /\ available_agents = <<>>
    /\ planner_pc = "idle"
    /\ task_index = 0
    /\ completed_tasks = <<>>
    /\ failed_tasks = <<>>
    /\ planner_results = {}
    /\ executed = <<>>
    /\ planner_return = NoPlannerReturn

\* PlannerAgent.register_agent (lines 59-62)
PlannerRegisterAgent ==
    /\ planner_pc = "idle"
    /\ Len(available_agents) < NumAgents
    /\ \E caps \in PlannerCapabilityChoices :
           available_agents' = Append(available_agents, caps)
    /\ UNCHANGED <<eventLoopVars, selectVars, planVars, taskVars, agentVars, localVars, pc,
                   report, exit_reason, entry_status, executor_outcome, executor_outcomes,
                   serviceVars, besidesPlanner, plan_tasks, planner_pc, task_index,
                   completed_tasks, failed_tasks, planner_results, executed, planner_return>>

\* Lines 144-153: _execute_plan is called and reaches its loop.
PlannerExecutePlanCall ==
    /\ planner_pc = "idle"
    /\ planner_pc' = "loop"
    /\ task_index' = 1
    /\ UNCHANGED <<eventLoopVars, selectVars, planVars, taskVars, agentVars, localVars, pc,
                   report, exit_reason, entry_status, executor_outcome, executor_outcomes,
                   serviceVars, besidesPlanner, plan_tasks, available_agents,
                   completed_tasks, failed_tasks, planner_results, executed, planner_return>>

\* Lines 155 and 173-175: the dependencies of the task are not satisfied.
DependenciesNotSatisfied ==
    /\ planner_pc = "loop"
    /\ task_index <= Len(plan_tasks)
    /\ ~DependenciesSatisfied(plan_tasks[task_index], completed_tasks)
    /\ failed_tasks' = Append(failed_tasks, plan_tasks[task_index].id)
    /\ task_index' = task_index + 1
    /\ UNCHANGED <<eventLoopVars, selectVars, planVars, taskVars, agentVars, localVars, pc,
                   report, exit_reason, entry_status, executor_outcome, executor_outcomes,
                   serviceVars, besidesPlanner, plan_tasks, available_agents, planner_pc,
                   completed_tasks, planner_results, executed, planner_return>>

\* Lines 155-159 and 170-172: no agent can handle the task.
NoSuitableAgent ==
    /\ planner_pc = "loop"
    /\ task_index <= Len(plan_tasks)
    /\ DependenciesSatisfied(plan_tasks[task_index], completed_tasks)
    /\ SelectAgentForTask(plan_tasks[task_index]) = NoAgent
    /\ failed_tasks' = Append(failed_tasks, plan_tasks[task_index].id)
    /\ task_index' = task_index + 1
    /\ UNCHANGED <<eventLoopVars, selectVars, planVars, taskVars, agentVars, localVars, pc,
                   report, exit_reason, entry_status, executor_outcome, executor_outcomes,
                   serviceVars, besidesPlanner, plan_tasks, available_agents, planner_pc,
                   completed_tasks, planner_results, executed, planner_return>>

\* Lines 155-169: the task is handed to the selected agent.  A result is
\* booked on completed_tasks or failed_tasks; an exception goes to the except
\* clause of lines 185-192, which returns what the two lists hold so far.
AgentExecuteTask ==
    /\ planner_pc = "loop"
    /\ task_index <= Len(plan_tasks)
    /\ DependenciesSatisfied(plan_tasks[task_index], completed_tasks)
    /\ SelectAgentForTask(plan_tasks[task_index]) # NoAgent
    /\ LET task == plan_tasks[task_index]
       IN  /\ executed' = Append(executed, [id |-> task.id,
                                            agent |-> SelectAgentForTask(task),
                                            completed |-> completed_tasks])
           /\ \E outcome \in ExecuteTaskOutcomes :
                IF outcome = "raise"
                THEN /\ planner_return' =
                            [kind |-> "error", completed_tasks |-> completed_tasks,
                             failed_tasks |-> failed_tasks, task_results |-> {},
                             success_rate |-> Absent, error |-> ExecuteTaskErrorMsg]
                     /\ planner_pc' = "returned"
                     /\ UNCHANGED <<task_index, completed_tasks, failed_tasks, planner_results>>
                ELSE /\ planner_results' = planner_results \cup {<<task.id, outcome>>}
                     /\ completed_tasks' = IF outcome = "success"
                                           THEN Append(completed_tasks, task.id)
                                           ELSE completed_tasks
                     /\ failed_tasks' = IF outcome = "success" THEN failed_tasks
                                        ELSE Append(failed_tasks, task.id)
                     /\ task_index' = task_index + 1
                     /\ UNCHANGED <<planner_pc, planner_return>>
    /\ UNCHANGED <<eventLoopVars, selectVars, planVars, taskVars, agentVars, localVars, pc,
                   report, exit_reason, entry_status, executor_outcome, executor_outcomes,
                   serviceVars, besidesPlanner, plan_tasks, available_agents>>

\* Lines 177-183: the loop is through, the result dict is returned.
PlannerReturn ==
    /\ planner_pc = "loop"
    /\ task_index > Len(plan_tasks)
    /\ planner_return' =
           [kind |-> "result", completed_tasks |-> completed_tasks,
            failed_tasks |-> failed_tasks, task_results |-> planner_results,
            success_rate |-> IF plan_tasks # <<>>
                             THEN Ratio(Len(completed_tasks), Len(plan_tasks))
                             ELSE Ratio(0, 1),
            error |-> "None"]
    /\ planner_pc' = "returned"
    /\ UNCHANGED <<eventLoopVars, selectVars, planVars, taskVars, agentVars, localVars, pc,
                   report, exit_reason, entry_status, executor_outcome, executor_outcomes,
                   serviceVars, besidesPlanner, plan_tasks, available_agents, task_index,
                   completed_tasks, failed_tasks, planner_results, executed>>

PlannerNext ==
    \/ PlannerRegisterAgent
    \/ PlannerExecutePlanCall
    \/ DependenciesNotSatisfied
    \/ NoSuitableAgent
    \/ AgentExecuteTask
    \/ PlannerReturn

PlannerSpec == PlannerInit /\ [][PlannerNext]_vars

\* ------------------------------------------ the depth of the cycle search
\* has_cycle is recursive and CPython ends a recursion deeper than its
\* recursion limit with RecursionError, which is an Exception.  The limit is
\* 1000 frames for plans of any size; the plans here have NumTasks tasks, so
\* the frames left to has_cycle are scaled down with them.
RecursionLimit == 3
RecursionErrorMsg == "maximum recursion depth exceeded"

Max(x, y) == IF x >= y THEN x ELSE y

RECURSIVE HasCycleFrames(_, _, _, _, _), VisitDependenciesFrames(_, _, _, _, _, _)
\* has_cycle called at nesting depth: its result together with the deepest
\* nesting any has_cycle call below it reaches.
HasCycleFrames(id, S, visited, rec_stack, depth) ==
    IF id \in rec_stack THEN [found |-> TRUE, visited |-> visited, frames |-> depth]
    ELSE IF id \in visited THEN [found |-> FALSE, visited |-> visited, frames |-> depth]
    ELSE IF id \in S
         THEN VisitDependenciesFrames(SeqOfSet(dependencies[id], NumTasks), S,
                                      visited \cup {id}, rec_stack \cup {id}, depth, depth)
         ELSE [found |-> FALSE, visited |-> visited \cup {id}, frames |-> depth]
VisitDependenciesFrames(deps, S, visited, rec_stack, depth, frames) ==
    IF deps = <<>> THEN [found |-> FALSE, visited |-> visited, frames |-> frames]
    ELSE LET r == HasCycleFrames(Head(deps), S, visited, rec_stack, depth + 1)
         IN  IF r.found THEN [r EXCEPT !.frames = Max(frames, r.frames)]
             ELSE VisitDependenciesFrames(Tail(deps), S, r.visited, rec_stack, depth,
                                          Max(frames, r.frames))

RECURSIVE FramesFrom(_, _, _, _)
\* The outer loop of _has_circular_dependencies: the deepest nesting of
\* has_cycle up to its return.
FramesFrom(ts, S, visited, frames) ==
    IF ts = <<>> THEN frames
    ELSE IF Head(ts) \in visited THEN FramesFrom(Tail(ts), S, visited, frames)
    ELSE LET r == HasCycleFrames(Head(ts), S, visited, {}, 1)
         IN  IF r.found THEN Max(frames, r.frames)
             ELSE FramesFrom(Tail(ts), S, r.visited, Max(frames, r.frames))

\* _has_circular_dependencies(tasks) raises RecursionError.
RecursionErrorIn(S) == FramesFrom(SeqOfSet(S, NumTasks), S, {}, 0) > RecursionLimit

\* Line 71 returns true and line 73 leaves the loop.
LoopDeadlockInLimit == ~RecursionErrorIn(PendingTasks) /\ LoopDeadlock

\* Line 71 returns false and line 76 sleeps.
LoopWaitInLimit == ~RecursionErrorIn(PendingTasks) /\ LoopWait

\* Line 71 raises RecursionError inside the try of line 59: lines 128-136
\* return the error report, and nothing there calls plan.complete_execution.
LoopRecursionError ==
    /\ pc = "loop"
    /\ GetReadyTasks(completed_task_ids) = <<>>
    /\ PendingTasks # {}
    /\ RecursionErrorIn(PendingTasks)
    /\ ready_tasks' = <<>>
    /\ report' = ErrorReport(completed_task_ids, failed_task_ids, RecursionErrorMsg)
    /\ exit_reason' = "exception"
    /\ pc' = "returned"
    /\ UNCHANGED <<extensionVars, serviceVars, eventLoopVars, selectVars, planVars, taskVars, agentVars,
                   completed_task_ids, failed_task_ids, task_results, execution_tasks,
                   results, idx, entry_status, executor_outcome, executor_outcomes>>

\* Plans whose dependency chains may be longer than the frames left.
DeepInit ==
    /\ ConstructedUpTo(MaxDependencies + 1)
    /\ executor_outcomes = ExecutorOutcomes
    /\ ServiceIdle
    /\ ExtensionsIdle

DeepNext ==
    \/ RegisterAgent
    \/ ExecutePlanCall
    \/ LoopReady
    \/ LoopDone
    \/ LoopDeadlockInLimit
    \/ LoopWaitInLimit
    \/ LoopRecursionError
    \/ Sleep
    \/ SelectAgents
    \/ CoroutineStart
    \/ CoroutineAwait
    \/ BookResults

DeepSpec == DeepInit /\ [][DeepNext]_vars

\* C36: whenever execute_plan has returned, with a normal report or with an
\* error report, the plan's status is 'completed' with the success rate of the
\* run recorded; the plan is never left 'running' after the return.
C36_ReturnedPlanIsCompleted ==
    pc = "returned" =>
        /\ plan_status = "completed"
        /\ plan_success_rate = SuccessRate(report.completed_tasks)

\* The registered agents that are busy with task t.
BusyWith(t) ==
    {a \in Range(active_agents) : agent_status[a] = "busy" /\ current_task_id[a] = t}

\* C37: throughout execute_plan an agent is busy if and only if its
\* current_task_id is set, and a task is Running if and only if exactly one
\* agent is busy with it and that agent is the task's assigned_agent_id.
C37_AgentAndTaskRecordsLinked ==
    /\ \A a \in Range(active_agents) :
           agent_status[a] = "busy" <=> current_task_id[a] # NoTask
    /\ \A t \in PlanTasks :
           status[t] = RUNNING <=>
               /\ Cardinality(BusyWith(t)) = 1
               /\ assigned_agent_id[t] \in BusyWith(t)

\* C37 witness: inside a coroutine one task is Running on its busy agent, while
\* another agent is free and an earlier task of the plan has ended Failed.
C37_Witness ==
    \E t, u \in PlanTasks : \E a, b \in Range(active_agents) :
        /\ status[t] = RUNNING
        /\ BusyWith(t) = {a}
        /\ assigned_agent_id[t] = a
        /\ b # a
        /\ agent_status[b] = "available"
        /\ current_task_id[b] = NoTask
        /\ status[u] = FAILED
        /\ assigned_agent_id[u] # NoAgent

\* The dependency entries between the tasks of S contain a directed cycle:
\* some tasks of S each depend on one of them.
DirectedCycleAmong(S) ==
    \E X \in SUBSET S : X # {} /\ \A t \in X : dependencies[t] \cap X # {}

PlannerTaskIds == {plan_tasks[i].id : i \in DOMAIN plan_tasks}

\* C39: _execute_plan never raises and accounts for every task: in what it
\* returns every task of the plan is in exactly one of completed_tasks and
\* failed_tasks, also when an agent's execute_task raised, and success_rate is
\* the number of completed tasks divided by the number of tasks.
C39_EveryTaskAccountedFor ==
    planner_pc = "returned" =>
        /\ planner_return.kind \in {"result", "error"}
        /\ \A id \in PlannerTaskIds :
               (id \in Range(planner_return.completed_tasks))
                   # (id \in Range(planner_return.failed_tasks))
        /\ plan_tasks # <<>> =>
               planner_return.success_rate =
                   Ratio(Len(planner_return.completed_tasks), Len(plan_tasks))

\* The task of the plan with the given id.
PlannerTask(id) == plan_tasks[CHOOSE i \in DOMAIN plan_tasks : plan_tasks[i].id = id]

\* The ids that were handed to an agent's execute_task.
ExecutedIds == {executed[k].id : k \in DOMAIN executed}

\* The tasks of the plan already dealt with by the loop.
DealtWith ==
    {plan_tasks[i].id : i \in {j \in DOMAIN plan_tasks :
                                  j < task_index \/ (j = task_index /\ planner_pc = "returned")}}

\* C40: a task is handed to an agent only if all its dependency ids are in
\* completed_tasks at that moment; a task that is not handed over is recorded
\* as failed; so a task that depends on one that failed, found no agent or was
\* not reached is never executed.
C40_HandedOverOnlyAfterDependencies ==
    /\ \A k \in DOMAIN executed :
           PlannerTask(executed[k].id).dependencies \subseteq Range(executed[k].completed)
    /\ \A id \in DealtWith \ ExecutedIds :
           id \in Range(failed_tasks) /\ id \notin Range(completed_tasks)
    /\ \A id \in ExecutedIds :
           \A dep_id \in PlannerTask(id).dependencies :
               dep_id \in ExecutedIds /\ dep_id \in Range(completed_tasks)

\* C40 witness: in a chain of three tasks the first completed, the second was
\* handed over and failed, and the third was recorded failed, never executed.
C40_Witness ==
    /\ planner_pc = "returned"
    /\ Len(plan_tasks) = 3
    /\ plan_tasks[2].dependencies = {1}
    /\ plan_tasks[3].dependencies = {2}
    /\ completed_tasks = <<1>>
    /\ failed_tasks = <<2, 3>>
    /\ ExecutedIds = {1, 2}

====
